---- MODULE Spec2Model ----
(***************************************************************************)
(* Verification model of the sentiment-analysis-dashboard backend:         *)
(*   - services/person_tracker.py   (PersonTracker, TrackedPerson)         *)
(*   - services/person_detector.py  (BoundingBox)                          *)
(*   - services/video_processor.py  (VideoProcessor and its singleton)     *)
(*   - services/engagement_scorer_v2.py (score_person, aggregate_room)     *)
(*   - main_fastvlm.py / main_realtime.py (websocket session handlers)     *)
(* Scores are fixed point; IoU values are exact rationals <<num, den>>.    *)
(***************************************************************************)
EXTENDS Integers, Sequences, FiniteSets, TLC

VARIABLES
    \* ---- services/person_tracker.py, services/video_processor.py ----
    tracker_instance,    \* _tracker_instance: 0 = None, 1 = the PersonTracker
    processor_instance,  \* _processor_instance: 0 = None, 1 = the VideoProcessor
    is_initialized,      \* VideoProcessor._is_initialized
    frame_count,         \* VideoProcessor.frame_count
    session_proc,        \* per session: the processor it obtained (0 = none yet)
    tracks,              \* PersonTracker.tracks: track_id -> TrackedPerson
    next_track_id,       \* PersonTracker.next_track_id
    result,              \* serials of the tracks returned by the last update
    persons_out,         \* person_engagements of the last frame: [track_id, bbox] records
    \* history (ghost) variables of the tracker
    issuedLog,           \* identities in the order they were issued
    misses,              \* per serial: consecutive updates without a match
    hits,                \* per serial: updates in which the track was matched
    updates,             \* number of update calls made so far
    last_detections,     \* the detections passed to the last update call
    last_op,             \* the last operation: [op, session]
    \* ---- PersonTracker._compute_iou as a function of two boxes ----
    iou_a, iou_b,        \* the two boxes
    iou_result,          \* <<>> before the call, then the value returned
    \* ---- services/engagement_scorer_v2.py ----
    sp_fastvlm,          \* score_person's fastvlm_data argument
    sp_emotion,          \* score_person's emotion_data argument
    sp_speech,           \* score_person's speech_data argument
    person_out,          \* the PersonEngagement returned (Absent before the call)
    persons,             \* the list handed to aggregate_room
    rooms,               \* the RoomEngagement of each aggregate_room call so far
    \* ---- services/keyword_parser.py ----
    vlm_text,            \* parse's argument: [present, chars], absent for None
    parse_result,        \* [parsed |-> FALSE] before the call, then the dict returned
    now,                 \* the wall clock read by datetime.now()
    \* ---- main_fastvlm.py / main_realtime.py: websocket sessions ----
    webhook_enabled,     \* WEBHOOK_ENABLED and WEBHOOK_URL are both set
    active_connections,  \* ConnectionManager.active_connections: client id -> websocket
    pc,                  \* per connection: where its websocket_endpoint coroutine stands
    client_id,           \* per connection: the client id of its URL ("none" before connect)
    ws_frame_count,      \* per connection: the endpoint's local frame_count
    last_webhook_time,   \* per connection: the endpoint's local last_webhook_time
    cur,                 \* per connection: the response being prepared or sent
    inbox,               \* per connection: the messages received so far, in order
    outbox,              \* per websocket: the messages delivered on it, in order
    webhooks,            \* the webhook posts started so far, in order
    handled,             \* per connection: loop iterations that ran to their end
    \* ---- api/websocket_manager.py: ConnectionManager.broadcast ----
    reg_entries,         \* the entries of the active_connections dict, in insertion order
    bc,                  \* the broadcast coroutine: its iterator, its locals, its log
    \* ---- services/speech_analyzer_v2.py: _calculate_speech_engagement ----
    transcript,          \* the text argument, a sequence of characters
    sentiment_compound,  \* sentiment_scores['compound'], in hundredths
    speech_engagement    \* [computed |-> FALSE] before the call, then the score returned

trackerVars == <<tracker_instance, processor_instance, is_initialized, frame_count,
                 session_proc, tracks, next_track_id, result, persons_out,
                 issuedLog, misses, hits, updates, last_detections, last_op>>

iouVars == <<iou_a, iou_b, iou_result>>

scoreVars == <<sp_fastvlm, sp_emotion, sp_speech, person_out>>

roomVars == <<persons, rooms>>

parseVars == <<vlm_text, parse_result>>

sessionVars == <<webhook_enabled, active_connections, pc, client_id, ws_frame_count,
                 last_webhook_time, cur, inbox, outbox, webhooks, handled>>

broadcastVars == <<reg_entries, bc>>

speechVars == <<transcript, sentiment_compound, speech_engagement>>

vars == <<trackerVars, iouVars, scoreVars, roomVars, parseVars, now, sessionVars,
          broadcastVars, speechVars>>

----------------------------------------------------------------------------
(* Bounds of the model *)

MaxFrames == 3
MaxDets == 2
AgingFrames == 33
MaxCoord == 2
MaxPersons == 2
MaxCalls == 2
MaxClock == 2
MaxMsgs == 2
MaxTicks == 1

(* Program constants *)

max_age == 30
history_maxlen == 30
WEBHOOK_INTERVAL_SECONDS == 10

iou_threshold == <<3, 10>>

Sessions == {1, 2}

\* the websockets accepted by the server and the ids their URLs can carry
Conns == {1, 2}

ClientIds == {"a", "b"}

\* the ids a websocket's URL can carry: up to renaming of ids, the first
\* websocket presents "a" and the second presents the same id or another
IdsOf(c) == IF c = 1 THEN {"a"} ELSE ClientIds

----------------------------------------------------------------------------
(* services/person_detector.py: BoundingBox *)

Box(x1, y1, x2, y2) == [x1 |-> x1, y1 |-> y1, x2 |-> x2, y2 |-> y2]

width(b) == b.x2 - b.x1

height(b) == b.y2 - b.y1

area(b) == width(b) * height(b)

Max(a, b) == IF a >= b THEN a ELSE b

Min(a, b) == IF a <= b THEN a ELSE b

(* Exact rationals <<num, den>>, den > 0 *)

RatGeq(r, s) == r[1] * s[2] >= s[1] * r[2]

RatAdd(r, s) == <<r[1] * s[2] + s[1] * r[2], r[2] * s[2]>>

----------------------------------------------------------------------------
(* services/person_tracker.py *)

intersection(bbox1, bbox2) ==
    LET x1 == Max(bbox1.x1, bbox2.x1)
        y1 == Max(bbox1.y1, bbox2.y1)
        x2 == Min(bbox1.x2, bbox2.x2)
        y2 == Min(bbox1.y2, bbox2.y2)
    IN  Max(0, x2 - x1) * Max(0, y2 - y1)

\* the union taken without subtracting the intersection
compute_iou_sum(bbox1, bbox2) ==
    LET inter == intersection(bbox1, bbox2)
        union == area(bbox1) + area(bbox2)
    IN  IF union = 0 THEN <<0, 1>> ELSE <<inter, union>>

\* PersonTracker._compute_iou
compute_iou(bbox1, bbox2) ==
    LET inter == intersection(bbox1, bbox2)
        union == area(bbox1) + area(bbox2) - inter
    IN  IF union = 0 THEN <<0, 1>> ELSE <<inter, union>>

\* TrackedPerson.__init__ ; serial and owner are history fields
NewTrackedPerson(track_id, bbox, serial, owner) ==
    [track_id |-> track_id, bbox |-> bbox, history |-> <<bbox>>,
     frames_since_update |-> 0, total_frames |-> 1,
     serial |-> serial, owner |-> owner]

\* a history that is never trimmed
history_append_unbounded(h, bbox) == Append(h, bbox)

\* deque(maxlen=30).append
history_append(h, bbox) ==
    IF Len(h) >= history_maxlen THEN Append(Tail(h), bbox) ELSE Append(h, bbox)

\* TrackedPerson.update
track_update(t, bbox) ==
    [t EXCEPT !.bbox = bbox, !.history = history_append(t.history, bbox),
              !.frames_since_update = 0, !.total_frames = t.total_frames + 1]

\* a tracker that does not age its tracks
mark_missed_never(t) == t

\* TrackedPerson.mark_missed
mark_missed(t) == [t EXCEPT !.frames_since_update = t.frames_since_update + 1]

\* a registry pruned one update too early (>= instead of >)
remove_stale_tracks_early(T) ==
    LET keep == {id \in DOMAIN T : ~(T[id].frames_since_update >= max_age)}
    IN  [id \in keep |-> T[id]]

\* PersonTracker._remove_stale_tracks
remove_stale_tracks(T) ==
    LET keep == {id \in DOMAIN T : ~(T[id].frames_since_update > max_age)}
    IN  [id \in keep |-> T[id]]

\* PersonTracker._create_new_track, for each box of a list in order
RECURSIVE create_new_tracks(_, _, _, _, _)
create_new_tracks(T, nid, boxes, serial, owner) ==
    IF boxes = <<>> THEN [tracks |-> T, next_track_id |-> nid]
    ELSE LET T1 == [id \in DOMAIN T \cup {nid} |->
                      IF id = nid
                      THEN NewTrackedPerson(nid, Head(boxes), serial, owner)
                      ELSE T[id]]
         IN  create_new_tracks(T1, nid + 1, Tail(boxes), serial + 1, owner)

Injective(f) == \A a, b \in DOMAIN f : a # b => f[a] # f[b]

\* scipy.optimize.linear_sum_assignment on an |R| x |C| matrix: the complete
\* one-to-one assignments of the smaller side, as sets of <<row, col>> pairs
Assignments(R, C) ==
    IF Cardinality(R) <= Cardinality(C)
    THEN {{<<r, f[r]>> : r \in R} : f \in {g \in [R -> C] : Injective(g)}}
    ELSE {{<<f[c], c>> : c \in C} : f \in {g \in [C -> R] : Injective(g)}}

RECURSIVE TotalIoU(_, _, _)
TotalIoU(T, detections, asg) ==
    IF asg = {} THEN <<0, 1>>
    ELSE LET p == CHOOSE q \in asg : TRUE
         IN  RatAdd(compute_iou(T[p[1]].bbox, detections[p[2]]),
                    TotalIoU(T, detections, asg \ {p}))

\* a solver that returns any complete assignment, optimal or not
AnyAssignments(T, detections) == Assignments(DOMAIN T, 1..Len(detections))

\* linear_sum_assignment(-iou_matrix): the assignments of maximum total IoU
\* (the solver returns one of them)
OptimalAssignments(T, detections) ==
    LET all == Assignments(DOMAIN T, 1..Len(detections))
    IN  {a \in all : \A b \in all :
            RatGeq(TotalIoU(T, detections, a), TotalIoU(T, detections, b))}

\* the pairs of an assignment that update accepts
Accepted(T, detections, asg) ==
    {p \in asg : RatGeq(compute_iou(T[p[1]].bbox, detections[p[2]]), iou_threshold)}

RECURSIVE SelectSeq2(_, _, _)
SelectSeq2(s, i, skip) ==
    IF i > Len(s) THEN <<>>
    ELSE IF i \in skip THEN SelectSeq2(s, i + 1, skip)
         ELSE <<s[i]>> \o SelectSeq2(s, i + 1, skip)

\* PersonTracker.update with the solver's answer asg; returns the new registry,
\* the new next_track_id, the matched track ids and the boxes that spawned tracks
tracker_update(T0, nid, detections, asg, serial, owner) ==
    LET T1 == [id \in DOMAIN T0 |-> mark_missed(T0[id])]
    IN  IF Len(detections) = 0
        THEN [tracks |-> remove_stale_tracks(T1), next_track_id |-> nid,
              matched |-> {}, spawned |-> <<>>]
        ELSE IF DOMAIN T1 = {}
        THEN LET c == create_new_tracks(T1, nid, detections, serial, owner)
             IN  [tracks |-> c.tracks, next_track_id |-> c.next_track_id,
                  matched |-> {}, spawned |-> detections]
        ELSE LET acc == Accepted(T1, detections, asg)
                 matched_tracks == {p[1] : p \in acc}
                 matched_detections == {p[2] : p \in acc}
                 detOf(id) == (CHOOSE p \in acc : p[1] = id)[2]
                 T2 == [id \in DOMAIN T1 |->
                          IF id \in matched_tracks
                          THEN track_update(T1[id], detections[detOf(id)])
                          ELSE T1[id]]
                 unmatched == SelectSeq2(detections, 1, matched_detections)
                 c == create_new_tracks(T2, nid, unmatched, serial, owner)
             IN  [tracks |-> remove_stale_tracks(c.tracks),
                  next_track_id |-> c.next_track_id,
                  matched |-> matched_tracks, spawned |-> unmatched]

----------------------------------------------------------------------------
(* services/engagement_scorer_v2.py                                         *)
(* Component scores and confidences are in hundredths, weights in          *)
(* hundredths, overall scores in ten-thousandths; means are rationals.     *)

\* an argument that is None
Absent == [present |-> FALSE]

\* EngagementScorer.__init__: self.weights
weights == [fastvlm |-> 35, emotion |-> 25, body_language |-> 15,
            speech |-> 15, participation |-> 10]

\* PersonEngagement.__init__
NewPersonEngagement(track_id, ts) ==
    [present |-> TRUE, track_id |-> track_id, timestamp |-> ts,
     fastvlm_score |-> 50, emotion_score |-> 50, body_language_score |-> 50,
     speech_score |-> 50, participation_score |-> 50, overall_score |-> 5000,
     is_speaking |-> FALSE, confidence |-> 100]

\* PersonEngagement.calculate_overall
calculate_overall(p, w) ==
    LET total == p.fastvlm_score * w.fastvlm
               + p.emotion_score * w.emotion
               + p.body_language_score * w.body_language
               + p.speech_score * w.speech
               + p.participation_score * w.participation
    IN  [p EXCEPT !.overall_score = Max(0, Min(10000, total))]

\* EngagementScorer.score_person
score_person(track_id, fastvlm_data, emotion_data, speech_data, ts) ==
    LET p0 == NewPersonEngagement(track_id, ts)
        p1 == IF fastvlm_data.present
              THEN [p0 EXCEPT !.fastvlm_score = fastvlm_data.contextual_score,
                              !.body_language_score =
                                  IF fastvlm_data.open_posture THEN 75
                                  ELSE IF fastvlm_data.closed_posture THEN 35
                                  ELSE 50]
              ELSE p0
        p2 == IF emotion_data.present
              THEN [p1 EXCEPT !.emotion_score = emotion_data.engagement_score]
              ELSE p1
        p3 == IF speech_data.present
              THEN [p2 EXCEPT !.is_speaking = TRUE,
                              !.speech_score = speech_data.engagement_score,
                              !.participation_score = 80]
              ELSE [p2 EXCEPT !.is_speaking = FALSE,
                              !.participation_score = 30]
    IN  calculate_overall(p3, weights)

RECURSIVE SeqSum(_)
SeqSum(q) == IF q = <<>> THEN 0 ELSE Head(q) + SeqSum(Tail(q))

\* a RoomEngagement that starts from a score of 0
NewRoomEngagement_zero(ts) ==
    [timestamp |-> ts, overall_score |-> <<0, 1>>,
     total_participants |-> 0, active_participants |-> 0,
     highly_engaged_count |-> 0, neutral_count |-> 0, disengaged_count |-> 0,
     avg_fastvlm_score |-> <<50, 1>>, avg_emotion_score |-> <<50, 1>>,
     avg_speech_score |-> <<50, 1>>,
     speaking_count |-> 0, participation_rate |-> <<0, 1>>, persons |-> <<>>]

\* RoomEngagement.__init__
NewRoomEngagement(ts) ==
    [timestamp |-> ts, overall_score |-> <<5000, 1>>,
     total_participants |-> 0, active_participants |-> 0,
     highly_engaged_count |-> 0, neutral_count |-> 0, disengaged_count |-> 0,
     avg_fastvlm_score |-> <<50, 1>>, avg_emotion_score |-> <<50, 1>>,
     avg_speech_score |-> <<50, 1>>,
     speaking_count |-> 0, participation_rate |-> <<0, 1>>, persons |-> <<>>]

\* a bucket test that leaves a score of exactly 0.7 to the next bucket
IsHigh_strict(p) == p.overall_score > 7000

IsHigh(p) == p.overall_score >= 7000

IsNeutral(p) == ~IsHigh(p) /\ p.overall_score >= 4000

IsLow(p) == ~IsHigh(p) /\ ~(p.overall_score >= 4000)

IsActive(p) == p.confidence > 50

IsSpeaking(p) == p.is_speaking

\* EngagementScorer.aggregate_room
aggregate_room(ps, ts) ==
    LET room == [NewRoomEngagement(ts) EXCEPT !.persons = ps,
                                              !.total_participants = Len(ps)]
        n == Len(ps)
    IN  IF n = 0 THEN room
        ELSE [room EXCEPT
                !.overall_score = <<SeqSum([i \in 1..n |-> ps[i].overall_score]), n>>,
                !.highly_engaged_count = Cardinality({i \in 1..n : IsHigh(ps[i])}),
                !.neutral_count = Cardinality({i \in 1..n : IsNeutral(ps[i])}),
                !.disengaged_count = Cardinality({i \in 1..n : IsLow(ps[i])}),
                !.active_participants = Cardinality({i \in 1..n : IsActive(ps[i])}),
                !.avg_fastvlm_score = <<SeqSum([i \in 1..n |-> ps[i].fastvlm_score]), n>>,
                !.avg_emotion_score = <<SeqSum([i \in 1..n |-> ps[i].emotion_score]), n>>,
                !.avg_speech_score = <<SeqSum([i \in 1..n |-> ps[i].speech_score]), n>>,
                !.speaking_count = Cardinality({i \in 1..n : IsSpeaking(ps[i])}),
                !.participation_rate = <<Cardinality({i \in 1..n : IsSpeaking(ps[i])}), n>>]

----------------------------------------------------------------------------
(* services/keyword_parser.py: a text is a sequence of characters, a score  *)
(* an integer number of hundredths                                          *)

\* KeywordParser.POSITIVE_KEYWORDS
POSITIVE_KEYWORDS ==
    <<<<"e", "n", "g", "a", "g", "e", "d">>,
      <<"a", "t", "t", "e", "n", "t", "i", "v", "e">>,
      <<"f", "o", "c", "u", "s", "e", "d">>,
      <<"i", "n", "t", "e", "r", "e", "s", "t", "e", "d">>,
      <<"p", "a", "r", "t", "i", "c", "i", "p", "a", "t", "i", "v", "e">>,
      <<"a", "c", "t", "i", "v", "e">>,
      <<"a", "l", "e", "r", "t">>,
      <<"c", "o", "n", "c", "e", "n", "t", "r", "a", "t", "e", "d">>,
      <<"i", "n", "v", "o", "l", "v", "e", "d">>,
      <<"e", "n", "t", "h", "u", "s", "i", "a", "s", "t", "i", "c">>,
      <<"s", "m", "i", "l", "i", "n", "g">>,
      <<"h", "a", "p", "p", "y">>,
      <<"e", "x", "c", "i", "t", "e", "d">>,
      <<"n", "o", "d", "d", "i", "n", "g">>,
      <<"l", "e", "a", "n", "i", "n", "g", " ", "f", "o", "r", "w", "a", "r", "d">>,
      <<"e", "y", "e", " ", "c", "o", "n", "t", "a", "c", "t">>,
      <<"l", "o", "o", "k", "i", "n", "g", " ", "a", "t">>,
      <<"w", "a", "t", "c", "h", "i", "n", "g">>,
      <<"l", "i", "s", "t", "e", "n", "i", "n", "g">>,
      <<"p", "a", "y", "i", "n", "g", " ", "a", "t", "t", "e", "n", "t", "i", "o", "n">>,
      <<"e", "n", "e", "r", "g", "e", "t", "i", "c">>,
      <<"a", "n", "i", "m", "a", "t", "e", "d">>,
      <<"v", "i", "b", "r", "a", "n", "t">>,
      <<"l", "i", "v", "e", "l", "y">>,
      <<"e", "a", "g", "e", "r">>,
      <<"c", "u", "r", "i", "o", "u", "s">>,
      <<"r", "e", "s", "p", "o", "n", "s", "i", "v", "e">>,
      <<"e", "x", "p", "r", "e", "s", "s", "i", "v", "e">>,
      <<"b", "r", "i", "g", "h", "t">>,
      <<"c", "h", "e", "e", "r", "f", "u", "l">>,
      <<"p", "o", "s", "i", "t", "i", "v", "e">>,
      <<"u", "p", "b", "e", "a", "t">>,
      <<"m", "o", "t", "i", "v", "a", "t", "e", "d">>,
      <<"o", "p", "e", "n">>,
      <<"r", "e", "c", "e", "p", "t", "i", "v", "e">>>>

\* KeywordParser.NEUTRAL_KEYWORDS
NEUTRAL_KEYWORDS ==
    <<<<"n", "e", "u", "t", "r", "a", "l">>,
      <<"c", "a", "l", "m">>,
      <<"r", "e", "l", "a", "x", "e", "d">>,
      <<"c", "o", "m", "p", "o", "s", "e", "d">>,
      <<"s", "t", "e", "a", "d", "y">>,
      <<"s", "i", "t", "t", "i", "n", "g">>,
      <<"p", "r", "e", "s", "e", "n", "t">>,
      <<"q", "u", "i", "e", "t">>,
      <<"s", "t", "i", "l", "l">>,
      <<"s", "t", "a", "b", "l", "e">>>>

\* KeywordParser.NEGATIVE_KEYWORDS
NEGATIVE_KEYWORDS ==
    <<<<"d", "i", "s", "t", "r", "a", "c", "t", "e", "d">>,
      <<"b", "o", "r", "e", "d">>,
      <<"d", "i", "s", "e", "n", "g", "a", "g", "e", "d">>,
      <<"u", "n", "i", "n", "t", "e", "r", "e", "s", "t", "e", "d">>,
      <<"w", "i", "t", "h", "d", "r", "a", "w", "n">>,
      <<"p", "a", "s", "s", "i", "v", "e">>,
      <<"t", "i", "r", "e", "d">>,
      <<"f", "a", "t", "i", "g", "u", "e", "d">>,
      <<"s", "l", "e", "e", "p", "y">>,
      <<"d", "r", "o", "w", "s", "y">>,
      <<"l", "o", "o", "k", "i", "n", "g", " ", "a", "w", "a", "y">>,
      <<"l", "o", "o", "k", "i", "n", "g", " ", "d", "o", "w", "n">>,
      <<"c", "h", "e", "c", "k", "i", "n", "g", " ", "p", "h", "o", "n", "e">>,
      <<"y", "a", "w", "n", "i", "n", "g">>,
      <<"s", "l", "o", "u", "c", "h", "i", "n", "g">>,
      <<"l", "e", "a", "n", "i", "n", "g", " ", "b", "a", "c", "k">>,
      <<"a", "r", "m", "s", " ", "c", "r", "o", "s", "s", "e", "d">>,
      <<"f", "r", "o", "w", "n", "i", "n", "g">>,
      <<"c", "o", "n", "f", "u", "s", "e", "d">>,
      <<"u", "n", "h", "a", "p", "p", "y">>,
      <<"s", "a", "d">>,
      <<"f", "r", "u", "s", "t", "r", "a", "t", "e", "d">>,
      <<"w", "o", "r", "r", "i", "e", "d">>>>

\* KeywordParser.NEGATION_WORDS
NEGATION_WORDS ==
    <<<<"n", "o", "t">>,
      <<"n", "o">>,
      <<"n", "e", "v", "e", "r">>,
      <<"n", "e", "i", "t", "h", "e", "r">>,
      <<"n", "o", "n", "e">>,
      <<"n", "o", "b", "o", "d", "y">>,
      <<"n", "o", "t", "h", "i", "n", "g">>,
      <<"n", "o", "w", "h", "e", "r", "e">>,
      <<"h", "a", "r", "d", "l", "y">>,
      <<"b", "a", "r", "e", "l", "y">>,
      <<"s", "c", "a", "r", "c", "e", "l", "y">>,
      <<"d", "o", "e", "s", "n", "'", "t">>,
      <<"d", "o", "n", "'", "t">>,
      <<"i", "s", "n", "'", "t">>,
      <<"a", "r", "e", "n", "'", "t">>,
      <<"w", "a", "s", "n", "'", "t">>,
      <<"w", "e", "r", "e", "n", "'", "t">>,
      <<"w", "o", "n", "'", "t">>,
      <<"w", "o", "u", "l", "d", "n", "'", "t">>,
      <<"w", "i", "t", "h", "o", "u", "t">>>>

\* KeywordParser.OPEN_POSTURE
OPEN_POSTURE ==
    <<<<"l", "e", "a", "n", "i", "n", "g", " ", "f", "o", "r", "w", "a", "r", "d">>,
      <<"o", "p", "e", "n", " ", "p", "o", "s", "t", "u", "r", "e">>,
      <<"r", "e", "l", "a", "x", "e", "d", " ", "s", "h", "o", "u", "l", "d", "e", "r", "s">>,
      <<"u", "n", "c", "r", "o", "s", "s", "e", "d", " ", "a", "r", "m", "s">>,
      <<"u", "p", "r", "i", "g", "h", "t">>>>

\* KeywordParser.CLOSED_POSTURE
CLOSED_POSTURE ==
    <<<<"a", "r", "m", "s", " ", "c", "r", "o", "s", "s", "e", "d">>,
      <<"l", "e", "a", "n", "i", "n", "g", " ", "b", "a", "c", "k">>,
      <<"s", "l", "o", "u", "c", "h", "i", "n", "g">>,
      <<"t", "u", "r", "n", "e", "d", " ", "a", "w", "a", "y">>,
      <<"h", "u", "n", "c", "h", "e", "d">>>>

\* KeywordParser.ACTIVE_GESTURES
ACTIVE_GESTURES ==
    <<<<"g", "e", "s", "t", "u", "r", "i", "n", "g">>,
      <<"h", "a", "n", "d", " ", "r", "a", "i", "s", "e", "d">>,
      <<"n", "o", "d", "d", "i", "n", "g">>,
      <<"m", "o", "v", "i", "n", "g">>,
      <<"p", "o", "i", "n", "t", "i", "n", "g">>>>

\* KeywordParser.POSITIVE_EMOTIONS
POSITIVE_EMOTIONS ==
    <<<<"h", "a", "p", "p", "y">>,
      <<"s", "m", "i", "l", "i", "n", "g">>,
      <<"p", "l", "e", "a", "s", "e", "d">>,
      <<"c", "o", "n", "t", "e", "n", "t">>,
      <<"e", "x", "c", "i", "t", "e", "d">>,
      <<"s", "u", "r", "p", "r", "i", "s", "e", "d">>,
      <<"d", "e", "l", "i", "g", "h", "t", "e", "d">>,
      <<"j", "o", "y", "f", "u", "l">>,
      <<"e", "n", "t", "h", "u", "s", "i", "a", "s", "t", "i", "c">>,
      <<"c", "h", "e", "e", "r", "f", "u", "l">>,
      <<"b", "r", "i", "g", "h", "t">>,
      <<"p", "o", "s", "i", "t", "i", "v", "e">>,
      <<"u", "p", "b", "e", "a", "t">>,
      <<"a", "n", "i", "m", "a", "t", "e", "d">>,
      <<"e", "x", "p", "r", "e", "s", "s", "i", "v", "e">>,
      <<"e", "n", "e", "r", "g", "e", "t", "i", "c">>,
      <<"l", "i", "v", "e", "l", "y">>>>

\* KeywordParser.NEGATIVE_EMOTIONS
NEGATIVE_EMOTIONS ==
    <<<<"s", "a", "d">>,
      <<"f", "r", "u", "s", "t", "r", "a", "t", "e", "d">>,
      <<"a", "n", "g", "r", "y">>,
      <<"c", "o", "n", "f", "u", "s", "e", "d">>,
      <<"w", "o", "r", "r", "i", "e", "d">>,
      <<"c", "o", "n", "c", "e", "r", "n", "e", "d">>,
      <<"u", "p", "s", "e", "t">>>>

\* KeywordParser.NEUTRAL_EMOTIONS
NEUTRAL_EMOTIONS ==
    <<<<"n", "e", "u", "t", "r", "a", "l">>,
      <<"c", "a", "l", "m">>,
      <<"c", "o", "m", "p", "o", "s", "e", "d">>,
      <<"e", "x", "p", "r", "e", "s", "s", "i", "o", "n", "l", "e", "s", "s">>,
      <<"b", "l", "a", "n", "k">>>>

UpperCase ==
    <<"A", "B", "C", "D", "E", "F", "G", "H", "I", "J", "K", "L", "M",
      "N", "O", "P", "Q", "R", "S", "T", "U", "V", "W", "X", "Y", "Z">>

LowerCase ==
    <<"a", "b", "c", "d", "e", "f", "g", "h", "i", "j", "k", "l", "m",
      "n", "o", "p", "q", "r", "s", "t", "u", "v", "w", "x", "y", "z">>

\* str.lower()
lower(text) ==
    [i \in 1..Len(text) |->
        IF \E u \in 1..Len(UpperCase) : UpperCase[u] = text[i]
        THEN LowerCase[CHOOSE u \in 1..Len(UpperCase) : UpperCase[u] = text[i]]
        ELSE text[i]]

\* text[i:].startswith(kw), i counted from 0
starts_at(text, kw, i) ==
    /\ i + Len(kw) <= Len(text)
    /\ \A j \in 1..Len(kw) : text[i + j] = kw[j]

\* `kw in text`
contains(text, kw) == \E i \in 0..(Len(text) - 1) : starts_at(text, kw, i)

\* text.find(keyword): the lowest index (from 0) of an occurrence, -1 if none
find(text, keyword) ==
    IF contains(text, keyword)
    THEN CHOOSE i \in 0..(Len(text) - 1) :
            /\ starts_at(text, keyword, i)
            /\ \A h \in 0..(i - 1) : ~starts_at(text, keyword, h)
    ELSE -1

\* a negation test that looks at everything before the keyword
is_negated_anywhere(keyword, text) ==
    LET keyword_index == find(text, keyword)
    IN  IF keyword_index = -1 THEN FALSE
        ELSE \E n \in 1..Len(NEGATION_WORDS) :
                contains(SubSeq(text, 1, keyword_index), NEGATION_WORDS[n])

\* KeywordParser._is_negated
is_negated(keyword, text) ==
    LET keyword_index == find(text, keyword)
    IN  IF keyword_index = -1 THEN FALSE
        ELSE LET start == Max(0, keyword_index - 30)
                 before_text == SubSeq(text, start + 1, keyword_index)
             IN  \E n \in 1..Len(NEGATION_WORDS) : contains(before_text, NEGATION_WORDS[n])

\* KeywordParser._extract_matching
extract_matching(text, keywords, check_negation) ==
    SelectSeq(keywords,
              LAMBDA kw : contains(text, kw) /\ ~(check_negation /\ is_negated(kw, text)))

\* a score that is returned as it was summed up
clamp_none(score) == score

\* max(0.0, min(1.0, score))
clamp(score) == Max(0, Min(100, score))

\* KeywordParser._calculate_contextual_score
calculate_contextual_score(positive, neutral, negative, open_posture, closed_posture, active_gestures, positive_emotions, negative_emotions) ==
    LET s0 == 50
        s1 == s0 + Min(40, Len(positive) * 8)
        s2 == s1 - Min(40, Len(negative) * 8)
        s3 == IF open_posture # <<>> THEN s2 + 15 ELSE s2
        s4 == IF closed_posture # <<>> THEN s3 - 15 ELSE s3
        s5 == IF active_gestures # <<>> THEN s4 + 15 ELSE s4
        s6 == IF positive_emotions # <<>> THEN s5 + Min(25, Len(positive_emotions) * 8)
              ELSE s5
        s7 == IF negative_emotions # <<>> THEN s6 - 15 ELSE s6
        s8 == s7 + Min(5, Len(neutral) * 2)
    IN  clamp(s8)

\* KeywordParser._determine_dominant_sentiment
determine_dominant_sentiment(positive, neutral, negative) ==
    LET pos_count == Len(positive)
        neu_count == Len(neutral)
        neg_count == Len(negative)
    IN  IF pos_count > neg_count /\ pos_count > neu_count THEN "positive"
        ELSE IF neg_count > pos_count /\ neg_count > neu_count THEN "negative"
        ELSE "neutral"

\* KeywordParser._empty_result
parser_empty_result ==
    [vlm_text |-> <<>>,
     keywords |-> [positive |-> <<>>, neutral |-> <<>>, negative |-> <<>>],
     body_language |-> [open_posture |-> <<>>, closed_posture |-> <<>>,
                        active_gestures |-> <<>>],
     emotions |-> [positive |-> <<>>, negative |-> <<>>, neutral |-> <<>>],
     contextual_score |-> 50,
     dominant_sentiment |-> "neutral"]

\* KeywordParser.parse
parse(text) ==
    IF ~text.present \/ text.chars = <<>>
    THEN parser_empty_result
    ELSE LET lower_text == lower(text.chars)
             positive == extract_matching(lower_text, POSITIVE_KEYWORDS, TRUE)
             neutral == extract_matching(lower_text, NEUTRAL_KEYWORDS, FALSE)
             negative == extract_matching(lower_text, NEGATIVE_KEYWORDS, FALSE)
             open_posture == extract_matching(lower_text, OPEN_POSTURE, FALSE)
             closed_posture == extract_matching(lower_text, CLOSED_POSTURE, FALSE)
             active_gestures == extract_matching(lower_text, ACTIVE_GESTURES, FALSE)
             positive_emotions == extract_matching(lower_text, POSITIVE_EMOTIONS, FALSE)
             negative_emotions == extract_matching(lower_text, NEGATIVE_EMOTIONS, FALSE)
             neutral_emotions == extract_matching(lower_text, NEUTRAL_EMOTIONS, FALSE)
         IN  [vlm_text |-> text.chars,
              keywords |-> [positive |-> positive, neutral |-> neutral,
                            negative |-> negative],
              body_language |-> [open_posture |-> open_posture,
                                 closed_posture |-> closed_posture,
                                 active_gestures |-> active_gestures],
              emotions |-> [positive |-> positive_emotions,
                            negative |-> negative_emotions,
                            neutral |-> neutral_emotions],
              contextual_score |->
                  calculate_contextual_score(positive, neutral, negative, open_posture,
                                             closed_posture, active_gestures,
                                             positive_emotions, negative_emotions),
              dominant_sentiment |->
                  determine_dominant_sentiment(positive, neutral, negative)]

----------------------------------------------------------------------------
(* main_fastvlm.py, main_realtime.py: frames, results and the registry      *)
(* A result holds the fields of the response that the session observes;    *)
(* its overall_score is in thousandths.                                    *)

\* the payload of a video_frame message: absent or empty, not decodable as an
\* image, or an image showing some faces
Missing == [payload |-> "missing", faces |-> 0]

Malformed == [payload |-> "malformed", faces |-> 0]

Image(n) == [payload |-> "image", faces |-> n]

FramePayloads == {Missing, Malformed, Image(0), Image(1)}

Messages ==
    {[type |-> "video_frame", frame |-> f] : f \in FramePayloads}
    \cup {[type |-> "ping", frame |-> Missing], [type |-> "audio_chunk", frame |-> Missing]}

\* main_fastvlm treats an absent payload and an undecodable one alike (both
\* raise inside process_frame), so its sessions are driven with one of them
MessagesFastvlm == {m \in Messages : m.type = "video_frame" => m.frame # Missing}

\* the interleavings of two main_fastvlm sessions are explored with one
\* decodable frame (a frame without faces is handled by the same code path)
MessagesInterleaved == {m \in MessagesFastvlm : m.frame # Image(0)}

\* round(n / d) to the nearest integer, ties to even
round_div(n, d) ==
    LET q == n \div d
        r == n % d
    IN  IF 2 * r > d THEN q + 1
        ELSE IF 2 * r < d THEN q
        ELSE IF q % 2 = 0 THEN q ELSE q + 1

\* RoomEngagement.to_dict: overall_score and participation_rate in thousandths
\* (round(x, 3)), the percentages in tenths of a percent (round(x, 1))
room_to_dict(room) ==
    LET total == Max(1, room.total_participants)
    IN  [error |-> FALSE,
         overall_score |-> round_div(room.overall_score[1], room.overall_score[2] * 10),
         total_participants |-> room.total_participants,
         active_participants |-> room.active_participants,
         highly_engaged |-> room.highly_engaged_count,
         neutral |-> room.neutral_count,
         disengaged |-> room.disengaged_count,
         percentages |->
             [highly_engaged |-> round_div(room.highly_engaged_count * 1000, total),
              neutral |-> round_div(room.neutral_count * 1000, total),
              disengaged |-> round_div(room.disengaged_count * 1000, total)],
         speaking_count |-> room.speaking_count,
         participation_rate |->
             round_div(room.participation_rate[1] * 1000, room.participation_rate[2])]

\* what the keyword parser and the emotion fallback report for a detected face
SampleVlm ==
    [present |-> TRUE, contextual_score |-> 90, open_posture |-> FALSE,
     closed_posture |-> FALSE]

SampleEmotion == [present |-> TRUE, engagement_score |-> 80]

\* main_fastvlm.process_frame: every exception becomes {"error": ...}
process_frame(frame, ts) ==
    IF frame.payload # "image" THEN [error |-> TRUE]
    ELSE room_to_dict(aggregate_room(
             [i \in 1..frame.faces |->
                 score_person(i, SampleVlm, SampleEmotion, Absent, ts)], ts))

\* SimpleVideoAnalyzer._empty_result
empty_result ==
    [error |-> FALSE, overall_score |-> 0, total_participants |-> 0,
     highly_engaged |-> 0, neutral |-> 0, disengaged |-> 0]

\* SimpleVideoAnalyzer._calculate_engagement, in thousandths
calculate_engagement(has_eyes, is_smiling, relative_size, bright) ==
    LET score == 500 + (IF has_eyes THEN 200 ELSE 0) + (IF is_smiling THEN 150 ELSE 0)
                     + (IF relative_size = "large" THEN 100
                        ELSE IF relative_size = "small" THEN -100 ELSE 0)
                     + (IF bright THEN 50 ELSE 0)
    IN  Max(0, Min(1000, score))

\* SimpleVideoAnalyzer._aggregate_room_metrics on the persons' overall scores
aggregate_room_metrics(scores) ==
    IF Len(scores) = 0 THEN empty_result
    ELSE [error |-> FALSE,
          overall_score |-> round_div(SeqSum(scores), Len(scores)),
          total_participants |-> Len(scores),
          highly_engaged |-> Cardinality({i \in 1..Len(scores) : scores[i] >= 700}),
          neutral |-> Cardinality({i \in 1..Len(scores) :
                                      scores[i] >= 400 /\ scores[i] < 700}),
          disengaged |-> Cardinality({i \in 1..Len(scores) : scores[i] < 400})]

\* SimpleVideoAnalyzer.analyze_frame: a failed decode, an exception and a frame
\* without faces all return _empty_result()
analyze_frame(frame) ==
    IF frame.payload # "image" \/ frame.faces = 0 THEN empty_result
    ELSE aggregate_room_metrics(
             [i \in 1..frame.faces |-> calculate_engagement(TRUE, TRUE, "medium", TRUE)])

\* ConnectionManager.connect, after accept(): register websocket ws under id
connect(reg, id, ws) ==
    [i \in DOMAIN reg \cup {id} |-> IF i = id THEN ws ELSE reg[i]]

\* ConnectionManager.disconnect
disconnect(reg, id) == [i \in DOMAIN reg \ {id} |-> reg[i]]

\* no response is being prepared
NoCur ==
    [seq |-> 0, response |-> [type |-> "none"], target |-> 0, current_time |-> 0,
     notified |-> "none"]

pong == [type |-> "pong"]

engagement_update(data) == [type |-> "engagement_update", data |-> data]

----------------------------------------------------------------------------
(* Inputs: the detections a frame can carry *)

BoxA == Box(0, 0, 2, 2)

BoxB == Box(1, 0, 3, 2)

BoxC == Box(4, 4, 6, 6)

DetBoxes == {BoxA, BoxB, BoxC}

DetLists == UNION {[1..n -> DetBoxes] : n \in 0..MaxDets}

\* the aging scenario: frame 1 detects BoxA (and possibly BoxC); no later frame
\* detects BoxA again, while BoxC may come and go
AgingDetLists(u) == IF u = 0 THEN {<<BoxA>>, <<BoxA, BoxC>>} ELSE {<<>>, <<BoxC>>}


\* well-formed boxes on a small grid (x2 >= x1, y2 >= y1)
GridBoxes ==
    {Box(x1, y1, x2, y2) : x1 \in 0..MaxCoord, y1 \in 0..MaxCoord,
                           x2 \in 0..MaxCoord, y2 \in 0..MaxCoord}

WellFormedBoxes == {b \in GridBoxes : b.x2 >= b.x1 /\ b.y2 >= b.y1}

\* modality observations handed to score_person
FastvlmInputs ==
    {Absent} \cup
    {[present |-> TRUE, contextual_score |-> c, open_posture |-> o, closed_posture |-> cl] :
        c \in {10, 50, 90}, o \in BOOLEAN, cl \in BOOLEAN}

EmotionInputs ==
    {Absent} \cup {[present |-> TRUE, engagement_score |-> e] : e \in {10, 50, 90}}

SpeechInputs ==
    {Absent} \cup
    {[present |-> TRUE, engagement_score |-> e, is_speaking |-> f] :
        e \in {50, 70}, f \in BOOLEAN}

\* the persons of a room: a few scored persons of each kind
SamplePerson(kind, track_id) ==
    CASE kind = "absent" -> score_person(track_id, Absent, Absent, Absent, 0)
      [] kind = "high" ->
            score_person(track_id,
                [present |-> TRUE, contextual_score |-> 90, open_posture |-> TRUE,
                 closed_posture |-> FALSE],
                [present |-> TRUE, engagement_score |-> 90], Absent, 0)
      [] kind = "low" ->
            score_person(track_id,
                [present |-> TRUE, contextual_score |-> 10, open_posture |-> FALSE,
                 closed_posture |-> TRUE],
                [present |-> TRUE, engagement_score |-> 10], Absent, 0)
      [] kind = "speaking" ->
            score_person(track_id, Absent, Absent,
                [present |-> TRUE, engagement_score |-> 70, is_speaking |-> TRUE], 0)

PersonKinds == {"absent", "high", "low", "speaking"}

PersonLists ==
    UNION {{[i \in 1..n |-> SamplePerson(k[i], i)] : k \in [1..n -> PersonKinds]} :
            n \in 0..MaxPersons}

\* a PersonEngagement whose overall_score (in ten-thousandths) is given
PersonWithScore(track_id, overall_score) ==
    [NewPersonEngagement(track_id, 0) EXCEPT !.overall_score = overall_score]

\* overall scores on, next to and away from the bucket thresholds
BucketScores == {1000, 3999, 4000, 5000, 6999, 7000, 9000}

\* the scores 0.9, 0.5, 0.1
ExampleScores == <<9000, 5000, 1000>>

ScoreLists ==
    UNION {{[i \in 1..n |-> PersonWithScore(i, sc[i])] : sc \in [1..n -> BucketScores]} :
            n \in 0..MaxPersons}
    \cup {[i \in 1..Len(ExampleScores) |-> PersonWithScore(i, ExampleScores[i])]}

\* The texts handed to parse are None and concatenations of a few fragments:
\* a negation, a positive phrase, the tail of "not engaged at all, looking
\* away", a text rich in positive phrases, one rich in negative phrases, and two
\* fillers without any phrase, of 26 and of 27 characters
MaxFragments == 2

Fragments ==
    <<<<"n", "o", "t", " ">>,
      <<"e", "n", "g", "a", "g", "e", "d">>,
      <<" ", "a", "t", " ", "a", "l", "l", ",", " ", "l", "o", "o", "k", "i", "n", "g", " ",
        "a", "w", "a", "y">>,
      <<"H", "a", "p", "p", "y", " ", "s", "m", "i", "l", "i", "n", "g", " ", "e", "x", "c",
        "i", "t", "e", "d", " ", "c", "h", "e", "e", "r", "f", "u", "l", " ", "n", "o", "d",
        "d", "i", "n", "g", " ", "u", "p", "r", "i", "g", "h", "t", " ", "c", "a", "l", "m",
        " ">>,
      <<"b", "o", "r", "e", "d", " ", "t", "i", "r", "e", "d", " ", "s", "a", "d", " ", "c",
        "o", "n", "f", "u", "s", "e", "d", " ", "w", "o", "r", "r", "i", "e", "d", " ", "a",
        "r", "m", "s", " ", "c", "r", "o", "s", "s", "e", "d", " ">>,
      <<"t", "h", "e", " ", "p", "e", "r", "s", "o", "n", " ", "s", "i", "t", "s", " ", "a",
        "t", " ", "a", " ", "d", "e", "s", "k", " ">>,
      <<"t", "h", "e", " ", "p", "e", "r", "s", "o", "n", " ", "s", "i", "t", "s", " ", "a",
        "t", " ", "a", " ", "d", "e", "s", "k", ",", " ">>>>

RECURSIVE Concat(_)
Concat(fs) == IF fs = <<>> THEN <<>> ELSE Fragments[Head(fs)] \o Concat(Tail(fs))

NoText == [present |-> FALSE, chars |-> <<>>]

\* "not engaged at all, looking away"; a negation 30 and 31 characters before
\* the positive phrase; a negation before the second occurrence only
WindowTexts == {<<1, 2, 3>>, <<1, 6, 2>>, <<1, 7, 2>>, <<2, 1, 2>>}

Texts ==
    {[present |-> TRUE, chars |-> Concat(fs)] :
        fs \in WindowTexts \cup UNION {[1..n -> 1..Len(Fragments)] : n \in 0..MaxFragments}}
    \cup {NoText}

NotParsed == [parsed |-> FALSE]

----------------------------------------------------------------------------
(* services/speech_analyzer_v2.py: the engagement score of a transcription, *)
(* in ten-thousandths; the compound sentiment is in hundredths              *)

\* _calculate_speech_engagement: engagement_keywords
engagement_keywords ==
    <<<<"a", "g", "r", "e", "e">>,
      <<"y", "e", "s">>,
      <<"u", "n", "d", "e", "r", "s", "t", "a", "n", "d">>,
      <<"g", "r", "e", "a", "t">>,
      <<"e", "x", "c", "e", "l", "l", "e", "n", "t">>,
      <<"i", "n", "t", "e", "r", "e", "s", "t", "i", "n", "g">>,
      <<"q", "u", "e", "s", "t", "i", "o", "n">>,
      <<"t", "h", "i", "n", "k">>,
      <<"b", "e", "l", "i", "e", "v", "e">>>>

Whitespace == {" ", "\t", "\n"}

\* len(text.split()): the number of maximal runs of non-whitespace characters
word_count(text) ==
    Cardinality({i \in 1..Len(text) :
                    /\ text[i] \notin Whitespace
                    /\ (i = 1 \/ text[i - 1] \in Whitespace)})

\* SpeechAnalyzer._calculate_speech_engagement(text, sentiment_scores)
calculate_speech_engagement(text, compound) ==
    LET start == 5000 + 2000
        sentiment == IF compound > 5 THEN compound * 20
                     ELSE IF compound < -5 THEN (0 - compound) * 10
                     ELSE 0
        length == IF word_count(text) > 10 THEN 1000
                  ELSE IF word_count(text) > 20 THEN 1500
                  ELSE 0
        matched == {k \in 1..Len(engagement_keywords) :
                       contains(lower(text), engagement_keywords[k])}
        score == start + sentiment + length + 500 * Cardinality(matched)
    IN  Min(10000, Max(0, score))

\* Inputs: transcriptions made of a few leading words followed by "ok" up to a
\* number of words, and compound sentiments around the two cut-offs
SpeechWords ==
    <<<<"o", "k">>,
      <<"Y", "e", "s">>,
      <<"a", "g", "r", "e", "e">>,
      <<"g", "r", "e", "a", "t">>,
      <<"t", "h", "i", "n", "k", "i", "n", "g">>>>

MaxWordCount == 21

WordCounts == {2, 10, 11, 20, MaxWordCount}

LeadingWords == {<<>>, <<2>>, <<3, 4>>, <<5>>}

RECURSIVE Join(_)
Join(ws) ==
    IF ws = <<>> THEN <<>>
    ELSE IF Len(ws) = 1 THEN SpeechWords[Head(ws)]
    ELSE SpeechWords[Head(ws)] \o <<" ">> \o Join(Tail(ws))

Transcripts ==
    {Join(lead \o [i \in 1..(n - Len(lead)) |-> 1]) : lead \in LeadingWords, n \in WordCounts}

Compounds == {-100, -50, -6, -5, 0, 5, 6, 50, 100}

NotComputed == [computed |-> FALSE]

----------------------------------------------------------------------------
(* State after import: no singleton has been constructed yet *)

InitTracker ==
    /\ tracker_instance = 0
    /\ processor_instance = 0
    /\ is_initialized = FALSE
    /\ frame_count = 0
    /\ session_proc = [s \in Sessions |-> 0]
    /\ tracks = <<>>
    /\ next_track_id = 1
    /\ result = {}
    /\ persons_out = <<>>
    /\ issuedLog = <<>>
    /\ misses = <<>>
    /\ hits = <<>>
    /\ updates = 0
    /\ last_detections = <<>>
    /\ last_op = [op |-> "init", session |-> 0]

IdleTracker == InitTracker

IdleIoU == iou_a = BoxA /\ iou_b = BoxA /\ iou_result = <<>>

IdleScore ==
    sp_fastvlm = Absent /\ sp_emotion = Absent /\ sp_speech = Absent /\ person_out = Absent

IdleRoom == persons = <<>> /\ rooms = <<>>

IdleParse == vlm_text = NoText /\ parse_result = NotParsed

\* the server has started: no websocket has been accepted yet
InitSession ==
    /\ active_connections = <<>>
    /\ pc = [c \in Conns |-> "start"]
    /\ client_id = [c \in Conns |-> "none"]
    /\ ws_frame_count = [c \in Conns |-> 0]
    /\ last_webhook_time = [c \in Conns |-> 0]
    /\ cur = [c \in Conns |-> NoCur]
    /\ inbox = [c \in Conns |-> <<>>]
    /\ outbox = [c \in Conns |-> <<>>]
    /\ webhooks = <<>>
    /\ handled = [c \in Conns |-> 0]

IdleSession == webhook_enabled = FALSE /\ InitSession

\* no broadcast has been started and the dict has never held an entry
NoBroadcast ==
    [pc |-> "idle", di_used |-> 0, len |-> 0, di_pos |-> 1, client_id |-> "none",
     connection |-> 0, disconnected_clients |-> <<>>, registered |-> <<>>,
     delivered |-> {}, removed |-> {}]

IdleBroadcast == reg_entries = <<>> /\ bc = NoBroadcast

IdleSpeech ==
    transcript = <<>> /\ sentiment_compound = 0 /\ speech_engagement = NotComputed

Init ==
    /\ InitTracker
    /\ IdleIoU /\ IdleScore /\ IdleRoom /\ IdleParse /\ IdleSession /\ now = 0
    /\ IdleBroadcast /\ IdleSpeech

\* _compute_iou is about to be called on two well-formed boxes
InitIoU ==
    /\ iou_a \in WellFormedBoxes
    /\ iou_b \in WellFormedBoxes
    /\ iou_result = <<>>
    /\ IdleTracker /\ IdleScore /\ IdleRoom /\ IdleParse /\ IdleSession /\ now = 0
    /\ IdleBroadcast /\ IdleSpeech

\* score_person is about to be called on some combination of observations
InitScore ==
    /\ sp_fastvlm \in FastvlmInputs
    /\ sp_emotion \in EmotionInputs
    /\ sp_speech \in SpeechInputs
    /\ person_out = Absent
    /\ IdleTracker /\ IdleIoU /\ IdleRoom /\ IdleParse /\ IdleSession /\ now = 0
    /\ IdleBroadcast /\ IdleSpeech

\* aggregate_room is about to be called on some list of persons
InitRoom ==
    /\ persons \in PersonLists \cup ScoreLists
    /\ rooms = <<>>
    /\ now = 0
    /\ IdleTracker /\ IdleIoU /\ IdleScore /\ IdleParse /\ IdleSession /\ IdleBroadcast /\ IdleSpeech

\* parse is about to be called on some text
InitParse ==
    /\ vlm_text \in Texts
    /\ parse_result = NotParsed
    /\ now = 0
    /\ IdleTracker /\ IdleIoU /\ IdleScore /\ IdleRoom /\ IdleSession /\ IdleBroadcast /\ IdleSpeech

\* _calculate_speech_engagement is about to be called on a transcription
InitSpeech ==
    /\ transcript \in Transcripts
    /\ sentiment_compound \in Compounds
    /\ speech_engagement = NotComputed
    /\ now = 0
    /\ IdleTracker /\ IdleIoU /\ IdleScore /\ IdleRoom /\ IdleParse /\ IdleSession
    /\ IdleBroadcast

\* the ghost bookkeeping of one update call
GhostUpdate(T0, u) ==
    LET n == Len(u.spawned)
        matchedSerials == {T0[id].serial : id \in u.matched}
    IN  /\ issuedLog' = issuedLog \o [i \in 1..n |-> next_track_id + i - 1]
        /\ misses' = [s \in 1..Len(misses) |->
                        IF s \in matchedSerials THEN 0
                        ELSE Min(misses[s] + 1, max_age + 1)]
                     \o [i \in 1..n |-> 0]
        /\ hits' = [s \in 1..Len(hits) |->
                      IF s \in matchedSerials THEN hits[s] + 1 ELSE hits[s]]
                   \o [i \in 1..n |-> 0]
        /\ updates' = updates + 1

\* PersonTracker.update(detections) on the tracker, called for `owner`
UpdateTracker(detections, owner) ==
    \E asg \in (IF DOMAIN tracks = {} \/ Len(detections) = 0 THEN {{}}
                ELSE OptimalAssignments([id \in DOMAIN tracks |-> mark_missed(tracks[id])],
                                        detections)) :
        LET u == tracker_update(tracks, next_track_id, detections, asg,
                                Len(issuedLog) + 1, owner)
        IN  /\ tracks' = u.tracks
            /\ next_track_id' = u.next_track_id
            /\ result' = {u.tracks[id].serial : id \in DOMAIN u.tracks}
            /\ last_detections' = detections
            /\ GhostUpdate(tracks, u)

\* get_person_tracker(): construct the global PersonTracker on first use
get_person_tracker ==
    /\ tracker_instance' = 1
    /\ IF tracker_instance = 0
       THEN tracks' = <<>> /\ next_track_id' = 1
       ELSE UNCHANGED <<tracks, next_track_id>>

\* a direct caller of get_person_tracker()
GetPersonTracker ==
    /\ tracker_instance = 0
    /\ get_person_tracker
    /\ last_op' = [op |-> "get_tracker", session |-> 0]
    /\ UNCHANGED <<processor_instance, is_initialized, frame_count, session_proc,
                   result, persons_out, issuedLog, misses, hits, updates,
                   last_detections>>

\* get_person_tracker().update(detections)
Update(detections) ==
    /\ tracker_instance = 1
    /\ UpdateTracker(detections, 0)
    /\ last_op' = [op |-> "update", session |-> 0]
    /\ UNCHANGED <<tracker_instance, processor_instance, is_initialized, frame_count,
                   session_proc, persons_out>>

\* get_video_processor(): session s obtains the global VideoProcessor, whose
\* constructor takes the global tracker
GetVideoProcessor(s) ==
    /\ session_proc[s] = 0
    /\ IF processor_instance = 0
       THEN /\ processor_instance' = 1
            /\ get_person_tracker
            /\ is_initialized' = FALSE
            /\ frame_count' = 0
       ELSE UNCHANGED <<processor_instance, tracker_instance, tracks, next_track_id,
                        is_initialized, frame_count>>
    /\ session_proc' = [session_proc EXCEPT ![s] = processor_instance']
    /\ last_op' = [op |-> "get_processor", session |-> s]
    /\ UNCHANGED <<result, persons_out, issuedLog, misses, hits, updates,
                   last_detections>>

\* VideoProcessor.initialize
Initialize(s) ==
    /\ session_proc[s] = 1
    /\ ~is_initialized
    /\ is_initialized' = TRUE
    /\ last_op' = [op |-> "initialize", session |-> s]
    /\ UNCHANGED <<tracker_instance, processor_instance, frame_count, session_proc,
                   tracks, next_track_id, result, persons_out, issuedLog, misses,
                   hits, updates, last_detections>>

\* PersonTracker.get_active_tracks
active_tracks(T) == {id \in DOMAIN T : T[id].frames_since_update = 0}

\* list(self.tracks.values()): the tracks in insertion order, which is the order
\* of their ids
RECURSIVE tracked_persons(_)
tracked_persons(ids) ==
    IF ids = {} THEN <<>>
    ELSE LET first == CHOOSE id \in ids : \A other \in ids : id <= other
         IN  <<first>> \o tracked_persons(ids \ {first})

\* a loop that analyses every track the tracker returned
skip_person_never(tracked_person) == FALSE

\* process_frame: `if tracked_person.frames_since_update > 0: continue`
skip_person(tracked_person) == tracked_person.frames_since_update > 0

\* VideoProcessor._analyze_person: score_person(track_id=tracked_person.track_id,
\* ..., bbox=bbox.to_dict())
analyze_person(tracked_person) ==
    [track_id |-> tracked_person.track_id, bbox |-> tracked_person.bbox]

\* process_frame, step 3: the loop over the tracked persons
person_engagements(T) ==
    LET kept == SelectSeq(tracked_persons(DOMAIN T), LAMBDA id : ~skip_person(T[id]))
    IN  [i \in 1..Len(kept) |-> analyze_person(T[kept[i]])]

\* VideoProcessor.process_frame for a frame of session s with these detections
ProcessFrame(s, detections) ==
    /\ session_proc[s] = 1
    /\ is_initialized
    /\ updates < MaxFrames
    /\ frame_count' = frame_count + 1
    /\ UpdateTracker(detections, s)
    /\ persons_out' = person_engagements(tracks')
    /\ last_op' = [op |-> "process_frame", session |-> s]
    /\ UNCHANGED <<tracker_instance, processor_instance, is_initialized, session_proc>>

\* PersonTracker.reset
tracker_reset ==
    /\ tracks' = <<>>
    /\ next_track_id' = 1

\* VideoProcessor.reset
Reset(s) ==
    /\ session_proc[s] = 1
    /\ tracker_reset
    /\ frame_count' = 0
    /\ last_op' = [op |-> "reset", session |-> s]
    /\ UNCHANGED <<tracker_instance, processor_instance, is_initialized, session_proc,
                   result, persons_out, issuedLog, misses, hits, updates,
                   last_detections>>

otherThanTracker == <<iouVars, scoreVars, roomVars, parseVars, now, sessionVars,
                      broadcastVars, speechVars>>

Next ==
    /\ \E s \in Sessions :
          \/ GetVideoProcessor(s)
          \/ Initialize(s)
          \/ \E detections \in DetLists : ProcessFrame(s, detections)
          \/ Reset(s)
    /\ UNCHANGED otherThanTracker

Spec == Init /\ [][Next]_vars

\* the processing cycle of the VideoProcessor, frame after frame, with
\* detections that appear, stay, vanish and come back
CycleDetLists == {<<>>, <<BoxA>>, <<BoxC>>, <<BoxA, BoxC>>, <<BoxB, BoxC>>}

NextCycle ==
    /\ \E s \in Sessions :
          \/ GetVideoProcessor(s)
          \/ Initialize(s)
          \/ \E detections \in CycleDetLists : ProcessFrame(s, detections)
          \/ Reset(s)
    /\ UNCHANGED otherThanTracker

SpecCycle == Init /\ [][NextCycle]_vars

\* the tracker alone, driven through many frames with few distinct detections
NextAging ==
    /\ \/ GetPersonTracker
       \/ \E detections \in AgingDetLists(updates) :
              updates < AgingFrames /\ Update(detections)
    /\ UNCHANGED otherThanTracker

SpecAging == Init /\ [][NextAging]_vars

\* the tracker alone, driven with detections among which the assignment has a
\* choice: two overlapping boxes in either order, and four flat boxes of which
\* BoxMid lies in BoxWide while BoxLeft and BoxRight each overlap one of them a
\* little
BoxLeft == Box(0, 0, 6, 1)

BoxWide == Box(4, 0, 14, 1)

BoxMid == Box(4, 0, 8, 1)

BoxRight == Box(11, 0, 19, 1)

MatchDetLists ==
    {<<>>, <<BoxA>>, <<BoxA, BoxB>>, <<BoxB, BoxA>>, <<BoxB, BoxC>>,
     <<BoxLeft, BoxWide>>, <<BoxMid, BoxRight>>}

\* get_person_tracker().reset()
ResetTracker ==
    /\ tracker_instance = 1
    /\ tracker_reset
    /\ last_op' = [op |-> "reset", session |-> 0]
    /\ UNCHANGED <<tracker_instance, processor_instance, is_initialized, frame_count,
                   session_proc, result, persons_out, issuedLog, misses, hits, updates,
                   last_detections>>

NextMatch ==
    /\ \/ GetPersonTracker
       \/ \E detections \in MatchDetLists : updates < MaxFrames /\ Update(detections)
       \/ ResetTracker
    /\ UNCHANGED otherThanTracker

SpecMatch == Init /\ [][NextMatch]_vars

----------------------------------------------------------------------------
(* The pure functions, applied to drawn inputs *)

\* PersonTracker._compute_iou(iou_a, iou_b)
ComputeIoU ==
    /\ iou_result = <<>>
    /\ iou_result' = compute_iou(iou_a, iou_b)
    /\ UNCHANGED <<iou_a, iou_b, trackerVars, scoreVars, roomVars, parseVars, now,
                   sessionVars, broadcastVars, speechVars>>

NextIoU == ComputeIoU

SpecIoU == InitIoU /\ [][NextIoU]_vars

\* engagement_scorer.score_person(1, sp_fastvlm, sp_emotion, sp_speech)
ScorePerson ==
    /\ ~person_out.present
    /\ person_out' = score_person(1, sp_fastvlm, sp_emotion, sp_speech, now)
    /\ UNCHANGED <<sp_fastvlm, sp_emotion, sp_speech, trackerVars, iouVars, roomVars,
                   parseVars, now, sessionVars, broadcastVars, speechVars>>

NextScore == ScorePerson

SpecScore == InitScore /\ [][NextScore]_vars

\* engagement_scorer.aggregate_room(persons), once more on the same list
AggregateRoom ==
    /\ Len(rooms) < MaxCalls
    /\ rooms' = Append(rooms, aggregate_room(persons, now))
    /\ UNCHANGED <<persons, now, trackerVars, iouVars, scoreVars, parseVars, sessionVars,
                   broadcastVars, speechVars>>

\* time passes
Tick ==
    /\ now < MaxClock
    /\ now' = now + 1
    /\ UNCHANGED <<trackerVars, iouVars, scoreVars, roomVars, parseVars, sessionVars,
                   broadcastVars, speechVars>>

NextRoom == AggregateRoom \/ Tick

SpecRoom == InitRoom /\ [][NextRoom]_vars

\* KeywordParser.parse(vlm_text)
Parse ==
    /\ ~parse_result.parsed
    /\ parse_result' = [parsed |-> TRUE, result |-> parse(vlm_text)]
    /\ UNCHANGED <<vlm_text, trackerVars, iouVars, scoreVars, roomVars, now, sessionVars,
                   broadcastVars, speechVars>>

NextParse == Parse

SpecParse == InitParse /\ [][NextParse]_vars

\* SpeechAnalyzer._calculate_speech_engagement(transcript, sentiment_scores)
CalculateSpeechEngagement ==
    /\ ~speech_engagement.computed
    /\ speech_engagement' =
           [computed |-> TRUE,
            score |-> calculate_speech_engagement(transcript, sentiment_compound)]
    /\ UNCHANGED <<transcript, sentiment_compound, trackerVars, iouVars, scoreVars,
                   roomVars, parseVars, now, sessionVars, broadcastVars>>

NextSpeech == CalculateSpeechEngagement

SpecSpeech == InitSpeech /\ [][NextSpeech]_vars

----------------------------------------------------------------------------
(* The websocket sessions.  A coroutine runs without interruption between   *)
(* two awaits, so each action is the code from one await to the next.       *)

\* the number of messages the server has received on all websockets
Received == Len(inbox[1]) + Len(inbox[2])

\* a server that takes the next message of a connection while an earlier one is
\* still being handled
awaiting_receive_any(c) == pc[c] \in {"receive", "webhook", "send"}

\* the coroutine of connection c is suspended in `await websocket.receive_json()`:
\* the loop body of the previous message has run to its end
awaiting_receive(c) == pc[c] = "receive"

\* a limiter that lets every frame through
webhook_due_always(time_since_last_webhook) == TRUE

\* websocket_endpoint: time_since_last_webhook >= WEBHOOK_INTERVAL_SECONDS
webhook_due(time_since_last_webhook) == time_since_last_webhook >= WEBHOOK_INTERVAL_SECONDS

\* a send_webhook that lets the failure of the post reach its caller
send_webhook_propagates(delivered) == ~delivered

\* send_webhook wraps the post in try/except: httpx.TimeoutException and every
\* other Exception are logged and swallowed, so the call never raises
send_webhook_raises(delivered) == FALSE

\* a server that runs the frame pipeline on every message it answers
is_video_frame_or_ping(msg) == msg.type \in {"video_frame", "ping"}

\* websocket_endpoint: message_type == "video_frame"
is_video_frame(msg) == msg.type = "video_frame"

\* ConnectionManager.send_message up to its await (notified records how the
\* notification that preceded the call ended, if there was one): look the client id up and
\* start send_json on the websocket registered under it
SendMessage(c, k, response, notified) ==
    IF client_id[c] \in DOMAIN active_connections
    THEN /\ pc' = [pc EXCEPT ![c] = "send"]
         /\ cur' = [cur EXCEPT ![c] = [seq |-> k, response |-> response,
                                      target |-> active_connections[client_id[c]],
                                      current_time |-> 0, notified |-> notified]]
         /\ UNCHANGED handled
    ELSE /\ pc' = [pc EXCEPT ![c] = "receive"]
         /\ cur' = [cur EXCEPT ![c] = NoCur]
         /\ handled' = [handled EXCEPT ![c] = @ + 1]

\* the loop body ends without a response: back to receive_json
NoResponse(c) ==
    /\ UNCHANGED <<pc, cur>>
    /\ handled' = [handled EXCEPT ![c] = @ + 1]

\* websocket_endpoint: manager.connect succeeds, the locals are initialised
Connect(c, id) ==
    /\ pc[c] = "start"
    /\ active_connections' = connect(active_connections, id, c)
    /\ client_id' = [client_id EXCEPT ![c] = id]
    /\ ws_frame_count' = [ws_frame_count EXCEPT ![c] = 0]
    /\ last_webhook_time' = [last_webhook_time EXCEPT ![c] = now]
    /\ pc' = [pc EXCEPT ![c] = "receive"]
    /\ UNCHANGED <<webhook_enabled, cur, inbox, outbox, webhooks, handled, now>>

\* websocket.accept() raises: the endpoint ends before anything is registered
ConnectFails(c) ==
    /\ pc[c] = "start"
    /\ pc' = [pc EXCEPT ![c] = "closed"]
    /\ UNCHANGED <<webhook_enabled, active_connections, client_id, ws_frame_count,
                   last_webhook_time, cur, inbox, outbox, webhooks, handled, now>>

\* main_fastvlm.websocket_endpoint: receive_json returns msg; the code up to
\* the next await (the webhook post or send_json)
ReceiveFastvlm(c, msg) ==
    /\ awaiting_receive(c)
    /\ inbox' = [inbox EXCEPT ![c] = Append(@, msg)]
    /\ LET k == Len(inbox[c]) + 1
           engagement_data == process_frame(msg.frame, now)
           due == /\ ~engagement_data.error
                  /\ webhook_due(now - last_webhook_time[c])
       IN  IF is_video_frame(msg)
           THEN /\ ws_frame_count' = [ws_frame_count EXCEPT ![c] = @ + 1]
                /\ IF due /\ webhook_enabled
                   THEN /\ webhooks' = Append(webhooks, [conn |-> c, seq |-> k, time |-> now])
                        /\ pc' = [pc EXCEPT ![c] = "webhook"]
                        /\ cur' = [cur EXCEPT ![c] =
                                      [seq |-> k,
                                       response |-> engagement_update(engagement_data),
                                       target |-> 0, current_time |-> now,
                                       notified |-> "pending"]]
                        /\ UNCHANGED <<last_webhook_time, handled>>
                   ELSE /\ last_webhook_time' =
                              IF due THEN [last_webhook_time EXCEPT ![c] = now]
                              ELSE last_webhook_time
                        /\ SendMessage(c, k, engagement_update(engagement_data), "none")
                        /\ UNCHANGED webhooks
           ELSE /\ IF msg.type = "ping"
                   THEN SendMessage(c, k, pong, "none")
                   ELSE NoResponse(c)
                /\ UNCHANGED <<ws_frame_count, last_webhook_time, webhooks>>
    /\ UNCHANGED <<webhook_enabled, active_connections, client_id, outbox, now>>

\* main_realtime.websocket_endpoint: receive_json returns msg; the code up to
\* the await of send_json
ReceiveRealtime(c, msg) ==
    /\ awaiting_receive(c)
    /\ inbox' = [inbox EXCEPT ![c] = Append(@, msg)]
    /\ LET k == Len(inbox[c]) + 1
       IN  IF msg.type = "video_frame"
           THEN /\ ws_frame_count' = [ws_frame_count EXCEPT ![c] = @ + 1]
                /\ IF msg.frame.payload # "missing"
                   THEN SendMessage(c, k, engagement_update(analyze_frame(msg.frame)), "none")
                   ELSE NoResponse(c)
           ELSE /\ IF msg.type = "ping"
                   THEN SendMessage(c, k, pong, "none")
                   ELSE NoResponse(c)
                /\ UNCHANGED ws_frame_count
    /\ UNCHANGED <<webhook_enabled, active_connections, client_id, last_webhook_time,
                   outbox, webhooks, now>>

\* receive_json raises (WebSocketDisconnect or any other exception): the
\* endpoint calls manager.disconnect(client_id) and returns
ReceiveFails(c) ==
    /\ awaiting_receive(c)
    /\ active_connections' = disconnect(active_connections, client_id[c])
    /\ pc' = [pc EXCEPT ![c] = "closed"]
    /\ UNCHANGED <<webhook_enabled, client_id, ws_frame_count, last_webhook_time, cur,
                   inbox, outbox, webhooks, handled, now>>

\* the post of send_webhook ends, delivered or not (timeout, status, transport
\* error). If send_webhook raised, the endpoint's except branch would run;
\* otherwise the endpoint stores the time it read before the call and goes on
\* to send_message
WebhookReturns(c, delivered) ==
    /\ pc[c] = "webhook"
    /\ IF send_webhook_raises(delivered)
       THEN /\ active_connections' = disconnect(active_connections, client_id[c])
            /\ pc' = [pc EXCEPT ![c] = "closed"]
            /\ cur' = [cur EXCEPT ![c] = NoCur]
            /\ UNCHANGED <<last_webhook_time, handled>>
       ELSE /\ last_webhook_time' = [last_webhook_time EXCEPT ![c] = cur[c].current_time]
            /\ SendMessage(c, cur[c].seq, cur[c].response,
                           IF delivered THEN "delivered" ELSE "failed")
            /\ UNCHANGED active_connections
    /\ UNCHANGED <<webhook_enabled, client_id, ws_frame_count, inbox, outbox, webhooks, now>>

\* send_json returns or raises; on an exception send_message calls
\* disconnect(client_id) and the endpoint goes back to receive_json
SendReturns(c, ok) ==
    /\ pc[c] = "send"
    /\ ok => pc[cur[c].target] # "closed"
    /\ IF ok
       THEN /\ outbox' = [outbox EXCEPT ![cur[c].target] =
                             Append(@, [message |-> cur[c].response,
                                        from |-> c, seq |-> cur[c].seq])]
            /\ UNCHANGED active_connections
       ELSE /\ active_connections' = disconnect(active_connections, client_id[c])
            /\ UNCHANGED outbox
    /\ pc' = [pc EXCEPT ![c] = "receive"]
    /\ cur' = [cur EXCEPT ![c] = NoCur]
    /\ handled' = [handled EXCEPT ![c] = @ + 1]
    /\ UNCHANGED <<webhook_enabled, client_id, ws_frame_count, last_webhook_time,
                   inbox, webhooks, now>>

\* datetime.now() reads d seconds more than before
Advance(d) ==
    /\ now' = now + d
    /\ UNCHANGED sessionVars

\* time passes, one webhook interval at a time
Elapse == Advance(WEBHOOK_INTERVAL_SECONDS)

otherThanSession == <<trackerVars, iouVars, scoreVars, roomVars, parseVars, broadcastVars, speechVars>>

InitFastvlm ==
    /\ webhook_enabled \in BOOLEAN
    /\ InitSession
    /\ now = 0
    /\ IdleTracker /\ IdleIoU /\ IdleScore /\ IdleRoom /\ IdleParse /\ IdleBroadcast /\ IdleSpeech

NextFastvlm ==
    /\ \/ \E c \in Conns :
             \/ \E id \in IdsOf(c) : Connect(c, id)
             \/ ConnectFails(c)
             \/ \E msg \in MessagesInterleaved : Received < MaxMsgs /\ ReceiveFastvlm(c, msg)
             \/ ReceiveFails(c)
             \/ \E delivered \in BOOLEAN : WebhookReturns(c, delivered)
             \/ \E ok \in BOOLEAN : SendReturns(c, ok)
       \/ now < MaxTicks * WEBHOOK_INTERVAL_SECONDS /\ Elapse
    /\ UNCHANGED otherThanSession

SpecFastvlm == InitFastvlm /\ [][NextFastvlm]_vars

\* One client of main_fastvlm followed over more messages and a finer clock:
\* websocket TheClient alone, the clock advancing by half or whole intervals
TheClient == 1

MaxClientMsgs == 3

MaxClientTicks == 2

ClockSteps == {WEBHOOK_INTERVAL_SECONDS \div 2, WEBHOOK_INTERVAL_SECONDS}

NextOneClient ==
    /\ \/ \E id \in IdsOf(TheClient) : Connect(TheClient, id)
       \/ ConnectFails(TheClient)
       \/ \E msg \in MessagesFastvlm :
             Len(inbox[TheClient]) < MaxClientMsgs /\ ReceiveFastvlm(TheClient, msg)
       \/ ReceiveFails(TheClient)
       \/ \E delivered \in BOOLEAN : WebhookReturns(TheClient, delivered)
       \/ \E ok \in BOOLEAN : SendReturns(TheClient, ok)
       \/ \E d \in ClockSteps :
             now < MaxClientTicks * WEBHOOK_INTERVAL_SECONDS /\ Advance(d)
    /\ UNCHANGED otherThanSession

SpecOneClient == InitFastvlm /\ [][NextOneClient]_vars

InitRealtime ==
    /\ webhook_enabled = FALSE
    /\ InitSession
    /\ now = 0
    /\ IdleTracker /\ IdleIoU /\ IdleScore /\ IdleRoom /\ IdleParse /\ IdleBroadcast /\ IdleSpeech

NextRealtime ==
    /\ \E c \in Conns :
          \/ \E id \in IdsOf(c) : Connect(c, id)
          \/ ConnectFails(c)
          \/ \E msg \in Messages : Received < MaxMsgs /\ ReceiveRealtime(c, msg)
          \/ ReceiveFails(c)
          \/ \E ok \in BOOLEAN : SendReturns(c, ok)
    /\ UNCHANGED <<otherThanSession, now>>

SpecRealtime == InitRealtime /\ [][NextRealtime]_vars

\* main.websocket_endpoint answers every video_frame with these mock metrics
\* (overall_score in thousandths)
mock_engagement == [overall_score |-> 730, persons |-> <<>>]

\* main.websocket_endpoint with api/websocket_manager.ConnectionManager:
\* receive_json returns msg; the code up to the await of send_json in
\* send_personal_message
ReceiveMain(c, msg) ==
    /\ awaiting_receive(c)
    /\ inbox' = [inbox EXCEPT ![c] = Append(@, msg)]
    /\ LET k == Len(inbox[c]) + 1
       IN  IF msg.type = "video_frame"
           THEN SendMessage(c, k, engagement_update(mock_engagement), "none")
           ELSE IF msg.type = "ping"
           THEN SendMessage(c, k, pong, "none")
           ELSE NoResponse(c)
    /\ UNCHANGED <<webhook_enabled, active_connections, client_id, ws_frame_count,
                   last_webhook_time, outbox, webhooks, now>>

\* what a client of main.py sends: the payload of a frame is not looked at
MessagesMain == {m \in Messages : m.type = "video_frame" => m.frame = Image(1)}

NextMain ==
    /\ \E c \in Conns :
          \/ \E id \in IdsOf(c) : Connect(c, id)
          \/ ConnectFails(c)
          \/ \E msg \in MessagesMain : Received < MaxMsgs /\ ReceiveMain(c, msg)
          \/ ReceiveFails(c)
          \/ \E ok \in BOOLEAN : SendReturns(c, ok)
    /\ UNCHANGED <<otherThanSession, now>>

SpecMain == InitRealtime /\ [][NextMain]_vars

----------------------------------------------------------------------------
(* api/websocket_manager.py: ConnectionManager.broadcast.  The loop iterates *)
(* over active_connections.items() and awaits send_json inside it, so other *)
(* connection flows run while the dict iterator is alive.  The dict keeps   *)
(* its entries in insertion order; a deleted entry leaves a hole.           *)

\* the hole a deleted entry leaves in the entries of a dict
Dummy == "<dummy>"

\* active_connections[client_id] = websocket: a known key keeps its entry, a new
\* key is appended
dict_setitem(entries, id) ==
    IF \E i \in 1..Len(entries) : entries[i] = id THEN entries ELSE Append(entries, id)

\* del active_connections[client_id]
dict_delitem(entries, id) ==
    [i \in 1..Len(entries) |-> IF entries[i] = id THEN Dummy ELSE entries[i]]

\* next() of the dict item iterator it on a dict with these entries and this
\* size: RuntimeError when the size differs from the size the iterator was
\* created with, the next live entry at or after di_pos otherwise, and
\* RuntimeError again when the iterator already yielded as many items as the
\* dict had
dictiter_iternextitem(entries, ma_used, it) ==
    LET live == {i \in it.di_pos..Len(entries) : entries[i] # Dummy}
        i == IF live = {} THEN Len(entries) + 1
             ELSE CHOOSE j \in live : \A h \in live : j <= h
    IN  IF it.di_used # ma_used THEN [kind |-> "RuntimeError", i |-> 0]
        ELSE IF i > Len(entries) THEN [kind |-> "StopIteration", i |-> 0]
        ELSE IF it.len = 0 THEN [kind |-> "RuntimeError", i |-> 0]
        ELSE [kind |-> "item", i |-> i]

\* the ids of a list, as a set
Ids(q) == {q[i] : i \in 1..Len(q)}

\* broadcast from one await to the next, b being the coroutine after the send
\* it resumed from: the for statement asks the iterator for the next item; an
\* item starts the next send_json, the end of the iteration runs the clean-up
\* loop over disconnected_clients, and a RuntimeError leaves broadcast at once
BroadcastContinues(b) ==
    LET r == dictiter_iternextitem(reg_entries, Cardinality(DOMAIN active_connections), b)
        gone == Ids(b.disconnected_clients) \cap DOMAIN active_connections
    IN  IF r.kind = "RuntimeError"
        THEN /\ bc' = [b EXCEPT !.pc = "raised"]
             /\ UNCHANGED <<active_connections, reg_entries>>
        ELSE IF r.kind = "StopIteration"
        THEN /\ bc' = [b EXCEPT !.pc = "done", !.removed = gone]
             /\ active_connections' =
                    [id \in DOMAIN active_connections \ gone |-> active_connections[id]]
             /\ reg_entries' =
                    [i \in 1..Len(reg_entries) |->
                        IF reg_entries[i] \in gone THEN Dummy ELSE reg_entries[i]]
        ELSE /\ bc' = [b EXCEPT !.pc = "sending", !.di_pos = r.i + 1, !.len = b.len - 1,
                                !.client_id = reg_entries[r.i],
                                !.connection = active_connections[reg_entries[r.i]]]
             /\ UNCHANGED <<active_connections, reg_entries>>

\* broadcast(message) is called: the iterator is created on the dict as it is
BroadcastStarts ==
    /\ bc.pc = "idle"
    /\ BroadcastContinues(
           [bc EXCEPT !.di_used = Cardinality(DOMAIN active_connections),
                      !.len = Cardinality(DOMAIN active_connections),
                      !.di_pos = 1,
                      !.registered = active_connections])
    /\ UNCHANGED <<webhook_enabled, pc, client_id, ws_frame_count, last_webhook_time,
                   cur, inbox, outbox, webhooks, handled, now>>

\* connection.send_json(message) of broadcast returns or raises
BroadcastSendReturns(ok) ==
    /\ bc.pc = "sending"
    /\ ok => pc[bc.connection] # "closed"
    /\ BroadcastContinues(
           IF ok THEN [bc EXCEPT !.delivered = @ \cup {bc.connection}]
           ELSE [bc EXCEPT !.disconnected_clients = Append(@, bc.client_id)])
    /\ UNCHANGED <<webhook_enabled, pc, client_id, ws_frame_count, last_webhook_time,
                   cur, inbox, outbox, webhooks, handled, now>>

\* another flow: an endpoint calls manager.connect
ConnectDuringBroadcast(c, id) ==
    /\ Connect(c, id)
    /\ reg_entries' = dict_setitem(reg_entries, id)
    /\ UNCHANGED bc

\* another flow: receive_json of an endpoint raises and it calls
\* manager.disconnect
DisconnectDuringBroadcast(c) ==
    /\ ReceiveFails(c)
    /\ reg_entries' = IF client_id[c] \in DOMAIN active_connections
                      THEN dict_delitem(reg_entries, client_id[c])
                      ELSE reg_entries
    /\ UNCHANGED bc

NextBroadcast ==
    /\ \/ \E c \in Conns : \E id \in IdsOf(c) : ConnectDuringBroadcast(c, id)
       \/ \E c \in Conns : DisconnectDuringBroadcast(c)
       \/ BroadcastStarts
       \/ \E ok \in BOOLEAN : BroadcastSendReturns(ok)
    /\ UNCHANGED <<trackerVars, iouVars, scoreVars, roomVars, parseVars, speechVars>>

SpecBroadcast == InitRealtime /\ [][NextBroadcast]_vars

----------------------------------------------------------------------------
(* Claims about the tracker *)

\* C1: across any sequence of update and reset calls on one tracker, every newly
\* created track receives an identity strictly greater than every identity the
\* tracker issued before, so no identity is issued to two different tracks.
C1_IdentitiesNeverReused ==
    \A i, j \in 1..Len(issuedLog) : i < j => issuedLog[i] < issuedLog[j]

TrackOfSerial(s) == {id \in DOMAIN tracks : tracks[id].serial = s}

\* C2: a track is in the registry and in the result of update exactly while its
\* consecutive-miss counter is <= max_age (30); it is removed by the update in
\* which the counter first exceeds max_age and never reappears.  In particular a
\* track created at frame 1 and never matched afterwards is in the results of
\* frames 1..31 and absent from the result of frame 32.
C2_TrackAging ==
    /\ \A s \in 1..Len(misses) :
          /\ misses[s] <= max_age =>
                /\ s \in result
                /\ \E id \in TrackOfSerial(s) :
                      tracks[id].frames_since_update = misses[s]
          /\ misses[s] > max_age => (s \notin result /\ TrackOfSerial(s) = {})
    /\ (Len(misses) >= 1 /\ misses[1] = updates - 1) =>
          /\ updates \in 1..31 => 1 \in result
          /\ updates = 32 => 1 \notin result

\* C2 witness: frame 32 has been processed, the track of frame 1 was never
\* matched and has just been pruned while another track is still registered
C2_Witness ==
    /\ updates = 32
    /\ Len(misses) >= 1
    /\ misses[1] = max_age + 1
    /\ 1 \notin result
    /\ DOMAIN tracks # {}

\* C3: each session owns its own tracker: processing a frame of one session
\* never changes a track that was created while processing another session's
\* frames.
C3_SessionOwnsTracker ==
    [][last_op'.op = "process_frame" =>
          \A id \in DOMAIN tracks :
              tracks[id].owner # last_op'.session =>
                  (id \in DOMAIN tracks' /\ tracks'[id] = tracks[id])]_vars

----------------------------------------------------------------------------
(* Claims about the fusion engine *)

\* C4: every component of an absent modality equals the neutral default 0.5
\* (context and body language for the context observation, emotion for the
\* emotion observation, speech and participation for the speech observation);
\* with every modality absent all components and the overall score are 0.5.
C4_AbsentModalityNeutral ==
    person_out.present =>
        /\ ~sp_fastvlm.present =>
              (person_out.fastvlm_score = 50 /\ person_out.body_language_score = 50)
        /\ ~sp_emotion.present => person_out.emotion_score = 50
        /\ ~sp_speech.present =>
              (person_out.speech_score = 50 /\ person_out.participation_score = 50)
        /\ (~sp_fastvlm.present /\ ~sp_emotion.present /\ ~sp_speech.present) =>
              person_out.overall_score = 5000

\* C5: with a speech observation present, participation is 0.8 when the
\* observation's is_speaking flag is true and 0.3 when it is false, and the
\* person's is_speaking reflects that flag.
C5_ParticipationFollowsFlag ==
    (person_out.present /\ sp_speech.present) =>
        /\ person_out.is_speaking = sp_speech.is_speaking
        /\ person_out.participation_score = (IF sp_speech.is_speaking THEN 80 ELSE 30)

\* C7: two aggregate_room calls on the same unmodified list return snapshots
\* that are equal in every field.
C7_AggregateIdempotent ==
    \A i, j \in 1..Len(rooms) : rooms[i] = rooms[j]

\* C16: after a processing cycle the PersonEngagement list holds exactly one
\* person for every track that this frame's detections matched or created (no
\* update without a match since, which is the tracks with missed-counter 0) and
\* none for a track carried over unmatched; each person carries the identity
\* and the box of its track.
C16_PersonsAreActiveTracks ==
    last_op.op = "process_frame"
    => /\ {persons_out[i].track_id : i \in 1..Len(persons_out)}
             = {id \in DOMAIN tracks : misses[tracks[id].serial] = 0}
       /\ {persons_out[i].track_id : i \in 1..Len(persons_out)} = active_tracks(tracks)
       /\ Len(persons_out) = Cardinality(active_tracks(tracks))
       /\ \A i \in 1..Len(persons_out) :
             /\ persons_out[i].track_id \in DOMAIN tracks
             /\ persons_out[i].bbox = tracks[persons_out[i].track_id].bbox

\* a cycle after which one track was matched and an older one is carried over
\* unmatched
C16_Witness ==
    /\ last_op.op = "process_frame"
    /\ Len(persons_out) = 1
    /\ \E id \in DOMAIN tracks :
          /\ tracks[id].frames_since_update > 0
          /\ persons_out[1].track_id > id
          /\ tracks[persons_out[1].track_id].total_frames > 1

\* C17: aggregate_room of an empty person list returns a room with
\* total_participants 0, overall_score 0.5, active_participants 0, the three
\* bucket counts 0, speaking_count 0 and participation_rate 0, every division
\* has a non-zero divisor, and to_dict serialises the three percentages as 0.
C17_EmptyRoom ==
    \A i \in 1..Len(rooms) :
        persons = <<>>
        => /\ rooms[i].total_participants = 0
           /\ rooms[i].overall_score[2] # 0
           /\ rooms[i].overall_score[1] = 5000 * rooms[i].overall_score[2]
           /\ rooms[i].active_participants = 0
           /\ rooms[i].highly_engaged_count = 0
           /\ rooms[i].neutral_count = 0
           /\ rooms[i].disengaged_count = 0
           /\ rooms[i].speaking_count = 0
           /\ rooms[i].participation_rate[2] # 0
           /\ rooms[i].participation_rate[1] = 0
           /\ room_to_dict(rooms[i]).overall_score = 500
           /\ room_to_dict(rooms[i]).participation_rate = 0
           /\ room_to_dict(rooms[i]).percentages
                 = [highly_engaged |-> 0, neutral |-> 0, disengaged |-> 0]

\* aggregate_room was called on the empty list
C17_Witness == persons = <<>> /\ Len(rooms) > 0

\* the number of persons of the list whose overall_score lies in lo..hi
\* (ten-thousandths)
ScoresWithin(lo, hi) ==
    Cardinality({j \in 1..Len(persons) :
                    lo <= persons[j].overall_score /\ persons[j].overall_score <= hi})

\* C18: for every person list the highly_engaged count is the number of persons
\* with overall_score >= 0.7, the neutral count the number with 0.4 <=
\* overall_score < 0.7 and the disengaged count the number with overall_score <
\* 0.4; the three counts sum to total_participants, which is the length of the
\* list; the scores 0.9, 0.5, 0.1 give the counts 1, 1, 1.
C18_Buckets ==
    \A i \in 1..Len(rooms) :
        /\ rooms[i].total_participants = Len(persons)
        /\ rooms[i].highly_engaged_count = ScoresWithin(7000, 10000)
        /\ rooms[i].neutral_count = ScoresWithin(4000, 6999)
        /\ rooms[i].disengaged_count = ScoresWithin(0, 3999)
        /\ rooms[i].highly_engaged_count + rooms[i].neutral_count
              + rooms[i].disengaged_count = rooms[i].total_participants
        /\ [j \in 1..Len(persons) |-> persons[j].overall_score] = ExampleScores
              => /\ rooms[i].highly_engaged_count = 1
                 /\ rooms[i].neutral_count = 1
                 /\ rooms[i].disengaged_count = 1

\* aggregate_room was called on persons with the scores 0.9, 0.5, 0.1
C18_Witness ==
    /\ Len(rooms) > 0
    /\ [j \in 1..Len(persons) |-> persons[j].overall_score] = ExampleScores
    /\ rooms[1].highly_engaged_count = 1

----------------------------------------------------------------------------
(* Claims about the keyword parser *)

\* the positions (from 1) at which phrase occurs in text
Occurrences(text, phrase) ==
    {i \in 1..(Len(text) - Len(phrase) + 1) :
        \A j \in 1..Len(phrase) : text[i + j - 1] = phrase[j]}

\* a negation token lies wholly within the (up to) 30 characters that
\* immediately precede the first occurrence of phrase
NegationBefore(text, phrase) ==
    LET first == CHOOSE i \in Occurrences(text, phrase) :
                    \A h \in Occurrences(text, phrase) : i <= h
    IN  \E n \in 1..Len(NEGATION_WORDS) :
            \E j \in Occurrences(text, NEGATION_WORDS[n]) :
                j >= first - 30 /\ j + Len(NEGATION_WORDS[n]) <= first

\* phrase is one of the matches
Matched(matches, phrase) == \E i \in 1..Len(matches) : matches[i] = phrase

\* the matches of a lexicon are its phrases that occur in the text
MatchesOccurring(matches, lexicon, text) ==
    \A k \in 1..Len(lexicon) :
        Matched(matches, lexicon[k]) <=> Occurrences(text, lexicon[k]) # {}

\* "not engaged at all, looking away"
ExampleText == Fragments[1] \o Fragments[2] \o Fragments[3]

\* C19: parse reports a positive phrase exactly when it occurs in the
\* lower-cased text and no negation token occurs within the (up to) 30
\* characters before its first occurrence; the negative, neutral, posture,
\* gesture and emotion matches are exactly the phrases that occur, negated or
\* not. For "not engaged at all, looking away", "engaged" is not a positive
\* match, "looking away" is a negative match and the score is below 0.5.
C19_NegationSuppressesPositive ==
    (parse_result.parsed /\ vlm_text.present /\ vlm_text.chars # <<>>)
    => LET text == lower(vlm_text.chars)
           r == parse_result.result
       IN  /\ \A k \in 1..Len(POSITIVE_KEYWORDS) :
                 Matched(r.keywords.positive, POSITIVE_KEYWORDS[k])
                 <=> /\ Occurrences(text, POSITIVE_KEYWORDS[k]) # {}
                     /\ ~NegationBefore(text, POSITIVE_KEYWORDS[k])
           /\ MatchesOccurring(r.keywords.neutral, NEUTRAL_KEYWORDS, text)
           /\ MatchesOccurring(r.keywords.negative, NEGATIVE_KEYWORDS, text)
           /\ MatchesOccurring(r.body_language.open_posture, OPEN_POSTURE, text)
           /\ MatchesOccurring(r.body_language.closed_posture, CLOSED_POSTURE, text)
           /\ MatchesOccurring(r.body_language.active_gestures, ACTIVE_GESTURES, text)
           /\ MatchesOccurring(r.emotions.positive, POSITIVE_EMOTIONS, text)
           /\ MatchesOccurring(r.emotions.negative, NEGATIVE_EMOTIONS, text)
           /\ MatchesOccurring(r.emotions.neutral, NEUTRAL_EMOTIONS, text)
           /\ vlm_text.chars = ExampleText
                 => /\ ~Matched(r.keywords.positive, Fragments[2])
                    /\ Matched(r.keywords.negative, SubSeq(Fragments[3], 10, 21))
                    /\ r.contextual_score < 50

\* parse was called on "not engaged at all, looking away"
C19_Witness ==
    /\ parse_result.parsed
    /\ vlm_text.chars = ExampleText
    /\ Len(parse_result.result.keywords.negative) = 1

\* ch is a character of a word: a lower-case letter or an apostrophe
WordChar(ch) == ch = "'" \/ \E u \in 1..Len(LowerCase) : LowerCase[u] = ch

\* the occurrence of token at position j (from 1) of text is a whole word: the
\* characters next to it, if any, are not characters of a word
WholeWordAt(text, token, j) ==
    /\ j > 1 => ~WordChar(text[j - 1])
    /\ j + Len(token) <= Len(text) => ~WordChar(text[j + Len(token)])

\* a negation token occurs as a whole word within the (up to) 30 characters
\* that immediately precede the first occurrence of phrase
WholeWordNegationBefore(text, phrase) ==
    LET first == CHOOSE i \in Occurrences(text, phrase) :
                    \A h \in Occurrences(text, phrase) : i <= h
    IN  \E n \in 1..Len(NEGATION_WORDS) :
            \E j \in Occurrences(text, NEGATION_WORDS[n]) :
                /\ j >= first - 30
                /\ j + Len(NEGATION_WORDS[n]) <= first
                /\ WholeWordAt(text, NEGATION_WORDS[n], j)

\* C30: a positive phrase that occurs in the lower-cased text is among the
\* positive matches of parse unless a negation token occurs as a whole word
\* within the 30 characters before its first occurrence; a word that merely
\* contains a negation token ("nodding" contains "no") does not remove it.
C30_WholeWordNegationOnly ==
    (parse_result.parsed /\ vlm_text.present /\ vlm_text.chars # <<>>)
    => LET text == lower(vlm_text.chars)
           r == parse_result.result
       IN  \A k \in 1..Len(POSITIVE_KEYWORDS) :
               (/\ Occurrences(text, POSITIVE_KEYWORDS[k]) # {}
                /\ ~WholeWordNegationBefore(text, POSITIVE_KEYWORDS[k]))
               => Matched(r.keywords.positive, POSITIVE_KEYWORDS[k])

\* TRUE counts 1, FALSE counts 0
Indicator(b) == IF b THEN 1 ELSE 0

\* C20: for every text, the contextual score in hundredths is
\* clamp(50 + min(40, 8P) - min(40, 8N) + 15[open posture] - 15[closed posture]
\* + 15[active gesture] + min(25, 8PE) - 15[negative emotion] + min(5, 2NEU))
\* to 0..100, with P, N, NEU, PE the numbers of matched positive, negative,
\* neutral and positive-emotion phrases, each phrase counted once; for an empty
\* or absent text all match lists are empty, the sentiment is neutral and the
\* score is 0.5.
C20_ContextualScore ==
    parse_result.parsed
    => LET r == parse_result.result
           P == Cardinality({k \in 1..Len(POSITIVE_KEYWORDS) :
                               Matched(r.keywords.positive, POSITIVE_KEYWORDS[k])})
           N == Cardinality({k \in 1..Len(NEGATIVE_KEYWORDS) :
                               Matched(r.keywords.negative, NEGATIVE_KEYWORDS[k])})
           NEU == Cardinality({k \in 1..Len(NEUTRAL_KEYWORDS) :
                                 Matched(r.keywords.neutral, NEUTRAL_KEYWORDS[k])})
           PE == Cardinality({k \in 1..Len(POSITIVE_EMOTIONS) :
                                Matched(r.emotions.positive, POSITIVE_EMOTIONS[k])})
           sum == 50 + Min(40, 8 * P) - Min(40, 8 * N)
                  + 15 * Indicator(Len(r.body_language.open_posture) > 0)
                  - 15 * Indicator(Len(r.body_language.closed_posture) > 0)
                  + 15 * Indicator(Len(r.body_language.active_gestures) > 0)
                  + Min(25, 8 * PE)
                  - 15 * Indicator(Len(r.emotions.negative) > 0)
                  + Min(5, 2 * NEU)
       IN  /\ P = Len(r.keywords.positive)
           /\ N = Len(r.keywords.negative)
           /\ NEU = Len(r.keywords.neutral)
           /\ PE = Len(r.emotions.positive)
           /\ r.contextual_score = (IF sum < 0 THEN 0 ELSE IF sum > 100 THEN 100 ELSE sum)
           /\ r.contextual_score \in 0..100
           /\ (~vlm_text.present \/ vlm_text.chars = <<>>)
                 => /\ r.contextual_score = 50
                    /\ r.dominant_sentiment = "neutral"
                    /\ r.keywords = [positive |-> <<>>, neutral |-> <<>>, negative |-> <<>>]
                    /\ r.body_language = [open_posture |-> <<>>, closed_posture |-> <<>>,
                                          active_gestures |-> <<>>]
                    /\ r.emotions = [positive |-> <<>>, negative |-> <<>>, neutral |-> <<>>]

\* parse was called on a text with six negative phrases, a closed posture and
\* a negative emotion, whose increments sum to less than 0
C20_Witness ==
    /\ parse_result.parsed
    /\ vlm_text.chars = Fragments[5]
    /\ Len(parse_result.result.keywords.negative) = 6
    /\ parse_result.result.contextual_score = 0

\* the step is a call of update
UpdateCalled == updates' = updates + 1

\* the one-to-one sets of <<track, detection>> pairs, complete or not
Matchings(R, C) ==
    {M \in SUBSET (R \X C) : \A p, q \in M : p # q => (p[1] # q[1] /\ p[2] # q[2])}

\* M has the maximum total IoU among the one-to-one assignments of the tracks T
\* to the detections D
MaximumTotalIoU(T, D, M) ==
    \A N \in Matchings(DOMAIN T, 1..Len(D)) :
        RatGeq(TotalIoU(T, D, M), TotalIoU(T, D, N))

\* the pairs of M whose IoU reaches the threshold
AtLeastThreshold(T, D, M) ==
    {p \in M : RatGeq(compute_iou(T[p[1]].bbox, D[p[2]]), iou_threshold)}

\* the elements of a set of numbers in ascending order
RECURSIVE Ascending(_)
Ascending(S) ==
    IF S = {} THEN <<>>
    ELSE LET least == CHOOSE x \in S : \A y \in S : x <= y
         IN  <<least>> \o Ascending(S \ {least})

\* the registry after the step is the registry T before it with the pairs acc
\* accepted for the detections D: the track of a pair took the box of its
\* detection, every other track only aged (or was pruned), and each detection
\* outside acc got one new track, in the order of the detections
AcceptedAre(T, D, acc) ==
    LET rest == Ascending({j \in 1..Len(D) : \A p \in acc : p[2] # j})
        fresh == {next_track_id + k - 1 : k \in 1..Len(rest)}
    IN  /\ \A p \in acc :
              /\ p[1] \in DOMAIN tracks'
              /\ tracks'[p[1]].bbox = D[p[2]]
              /\ tracks'[p[1]].frames_since_update = 0
              /\ tracks'[p[1]].total_frames = T[p[1]].total_frames + 1
        /\ \A id \in DOMAIN T :
              (\A p \in acc : p[1] # id)
              => \/ id \notin DOMAIN tracks'
                 \/ /\ tracks'[id].bbox = T[id].bbox
                    /\ tracks'[id].frames_since_update = T[id].frames_since_update + 1
                    /\ tracks'[id].total_frames = T[id].total_frames
        /\ next_track_id' = next_track_id + Len(rest)
        /\ fresh \cap DOMAIN T = {}
        /\ DOMAIN tracks' \subseteq DOMAIN T \cup fresh
        /\ \A k \in 1..Len(rest) :
              /\ next_track_id + k - 1 \in DOMAIN tracks'
              /\ tracks'[next_track_id + k - 1].bbox = D[rest[k]]
              /\ tracks'[next_track_id + k - 1].frames_since_update = 0
              /\ tracks'[next_track_id + k - 1].total_frames = 1

\* C24: an update called with at least one existing track and at least one
\* detection accepts exactly the pairs of IoU >= iou_threshold of a one-to-one
\* assignment of maximum total IoU: the tracks of those pairs take the boxes of
\* their detections, no track and no detection is in two pairs, and every
\* detection outside the pairs spawns exactly one new track.
C24_OptimalAssignmentAccepted ==
    [][(UpdateCalled /\ DOMAIN tracks # {} /\ Len(last_detections') >= 1)
       => \E M \in Matchings(DOMAIN tracks, 1..Len(last_detections')) :
             /\ MaximumTotalIoU(tracks, last_detections', M)
             /\ AcceptedAre(tracks, last_detections',
                            AtLeastThreshold(tracks, last_detections', M))]_vars

\* C24 witness: the last update was given two detections and three tracks
\* existed before it; one detection was matched to a track seen before, the
\* other spawned a track, and two tracks went unmatched
C24_Witness ==
    /\ Len(last_detections) = 2
    /\ \E a, b, c, d \in DOMAIN tracks :
          /\ tracks[a].frames_since_update = 0 /\ tracks[a].total_frames >= 2
          /\ tracks[b].frames_since_update = 0 /\ tracks[b].total_frames = 1
          /\ c # d
          /\ tracks[c].frames_since_update >= 1
          /\ tracks[d].frames_since_update >= 1

\* the track was created by the last update: it has been seen once, just now
SpawnedNow(t) == t.frames_since_update = 0 /\ t.total_frames = 1

\* C25: after any update no acceptable pair is left unused: no track that
\* existed before the update and went unmatched in it (missed counter >= 1) has
\* an IoU >= iou_threshold with a detection that spawned a new track in it.
C25_NoAcceptablePairUnused ==
    \A old, new \in DOMAIN tracks :
        (tracks[old].frames_since_update >= 1 /\ SpawnedNow(tracks[new]))
        => ~RatGeq(compute_iou(tracks[old].bbox, tracks[new].bbox), iou_threshold)

\* the state is the one an update call returned in
AfterUpdate == last_op.op \in {"update", "process_frame"}

\* the ways to bind each detection of D to a track of its own among S
Bindings(D, S) == {f \in [1..Len(D) -> S] : Injective(f)}

\* C26: after every update the tracks with missed counter 0 are as many as the
\* detections passed in (none for an empty list), and the detections can be
\* bound one-to-one to those tracks, each track holding the box of its
\* detection: every detection has exactly one track, matched or newly created,
\* and no two detections share a track.
C26_OneTrackPerDetection ==
    AfterUpdate
    => /\ Cardinality(active_tracks(tracks)) = Len(last_detections)
       /\ \E f \in Bindings(last_detections, active_tracks(tracks)) :
             \A j \in 1..Len(last_detections) : tracks[f[j]].bbox = last_detections[j]

\* C26 witness: an update with two detections left four tracks in the registry,
\* two of them unmatched, one matched again and one created for a detection
C26_Witness ==
    /\ AfterUpdate
    /\ Len(last_detections) = 2
    /\ Cardinality(DOMAIN tracks) = 4
    /\ Cardinality(active_tracks(tracks)) = 2
    /\ \E a, b \in active_tracks(tracks) :
          tracks[a].total_frames >= 2 /\ SpawnedNow(tracks[b])

\* C27: after any sequence of updates every track of the registry has been seen
\* once more than it was matched, keeps the last min(30, total-frames-seen)
\* boxes with its current box as the newest, has a missed counter equal to the
\* number of updates since it was last matched or created, at most max_age, and
\* an identity below the tracker's next identity.
C27_TrackBookkeeping ==
    \A id \in DOMAIN tracks :
        LET t == tracks[id]
        IN  /\ t.track_id = id
            /\ t.total_frames = 1 + hits[t.serial]
            /\ Len(t.history) = Min(history_maxlen, t.total_frames)
            /\ t.history[Len(t.history)] = t.bbox
            /\ t.frames_since_update = misses[t.serial]
            /\ t.frames_since_update <= max_age
            /\ id < next_track_id

\* C27 witness: one track has been seen in more than 30 updates and keeps 30
\* boxes, while another has gone unmatched for max_age updates and is still in
\* the registry
C27_Witness ==
    \E a, b \in DOMAIN tracks :
        /\ tracks[a].total_frames > history_maxlen
        /\ hits[tracks[a].serial] >= history_maxlen
        /\ Len(tracks[a].history) = history_maxlen
        /\ tracks[b].frames_since_update = max_age
        /\ hits[tracks[b].serial] = 0

----------------------------------------------------------------------------
(* Claims about the speech component *)

\* C28: the speech component of a transcription is
\* clamp(0.5 + S + L + 0.05 * K, 0, 1), S being 0.2 * c for a compound sentiment
\* c > 0.05, 0.1 * |c| for c < -0.05 and 0 otherwise, L being 0 for at most 10
\* words, 0.1 for 11 to 20 words and 0.15 for more than 20, and K the number of
\* engagement keywords found in the text.
C28_SpeechComponent ==
    speech_engagement.computed
    => LET c == sentiment_compound
           words == word_count(transcript)
           S == IF c > 5 THEN 20 * c ELSE IF c < -5 THEN 10 * (0 - c) ELSE 0
           L == IF words > 20 THEN 1500 ELSE IF words > 10 THEN 1000 ELSE 0
           K == Cardinality({k \in 1..Len(engagement_keywords) :
                                contains(lower(transcript), engagement_keywords[k])})
       IN  speech_engagement.score = Min(10000, Max(0, 5000 + S + L + 500 * K))

----------------------------------------------------------------------------
(* Claims about the websocket sessions *)

\* connection b holds the registry entry of its client id
Registered(reg, cid, b) == cid[b] \in DOMAIN reg /\ reg[cid[b]] = b

\* no other connection presented the client id of c
SoleOwner(c) == \A d \in Conns \ {c} : client_id[d] # client_id[c]

\* the handling of the k-th message of connection c has come to its end
Handled(c, k) ==
    \/ k < Len(inbox[c])
    \/ k = Len(inbox[c]) /\ pc[c] \in {"receive", "closed"}

\* the messages delivered on websocket t in answer to the k-th message of c
Answers(t, c, k) == {i \in 1..Len(outbox[t]) : outbox[t][i].from = c /\ outbox[t][i].seq = k}

\* the step is a failure while handling a message of connection a: receive_json
\* raised, send_json raised, the webhook call returned after a failed post (its
\* failures are swallowed, so it returns alike), or a frame failed to decode
ReceiveFailure(a) == pc[a] = "receive" /\ pc'[a] = "closed"

SendFailure(a) == pc[a] = "send" /\ pc'[a] = "receive" /\ outbox' = outbox

WebhookFailure(a) == pc[a] = "webhook" /\ pc'[a] # "webhook"

DecodeFailure(a) ==
    /\ Len(inbox'[a]) = Len(inbox[a]) + 1
    /\ inbox'[a][Len(inbox'[a])].type = "video_frame"
    /\ inbox'[a][Len(inbox'[a])].frame \in {Missing, Malformed}

Failure(a) == ReceiveFailure(a) \/ SendFailure(a) \/ WebhookFailure(a) \/ DecodeFailure(a)

\* C8: a failure (decode, processing, send or receive) while handling client A
\* changes only A's registry entry and A's per-connection state: for every other
\* open connection B the registry entry, the counters and timestamps, the
\* handler position and the messages delivered to B are unchanged by that step.
C8_FailureIsolation ==
    [][\A a, b \in Conns :
          (Failure(a) /\ b # a /\ pc[b] \notin {"start", "closed"})
          => /\ Registered(active_connections, client_id, b)
                   => Registered(active_connections', client_id', b)
             /\ ws_frame_count'[b] = ws_frame_count[b]
             /\ last_webhook_time'[b] = last_webhook_time[b]
             /\ pc'[b] = pc[b]
             /\ cur'[b] = cur[b]
             /\ outbox'[b] = outbox[b]]_vars

\* C9: on a connection that alone uses its client id and is still registered, a
\* video_frame whose payload cannot be decoded is answered on that connection by
\* exactly one response, which carries an error result, and a ping handled after
\* it on the same connection is answered by exactly one pong.
C9_UndecodableFrameError ==
    \A c \in Conns : \A k \in 1..Len(inbox[c]) :
        (/\ inbox[c][k].type = "video_frame"
         /\ inbox[c][k].frame = Malformed
         /\ Handled(c, k)
         /\ SoleOwner(c)
         /\ Registered(active_connections, client_id, c))
        => /\ Cardinality(Answers(c, c, k)) = 1
           /\ \A i \in Answers(c, c, k) :
                 /\ outbox[c][i].message.type = "engagement_update"
                 /\ outbox[c][i].message.data.error
           /\ \A j \in (k + 1)..Len(inbox[c]) :
                 (inbox[c][j].type = "ping" /\ Handled(c, j))
                 => /\ Cardinality(Answers(c, c, j)) = 1
                    /\ \A i \in Answers(c, c, j) : outbox[c][i].message = pong

\* C10: on a connection that alone uses its client id and is still registered,
\* every video_frame whose handling has ended was answered by exactly one
\* engagement_update, delivered on the connection the frame arrived on.
C10_OneUpdatePerFrame ==
    \A c \in Conns : \A k \in 1..Len(inbox[c]) :
        (/\ inbox[c][k].type = "video_frame"
         /\ Handled(c, k)
         /\ SoleOwner(c)
         /\ Registered(active_connections, client_id, c))
        => /\ Cardinality(Answers(c, c, k)) = 1
           /\ \A i \in Answers(c, c, k) : outbox[c][i].message.type = "engagement_update"
           /\ \A t \in Conns \ {c} : Answers(t, c, k) = {}

\* C12: on one connection any two notification attempts are at least
\* WEBHOOK_INTERVAL_SECONDS apart on the clock the endpoint reads, whatever the
\* rate of the video_frame messages.
C12_RateLimited ==
    \A i, j \in 1..Len(webhooks) :
        (i < j /\ webhooks[i].conn = webhooks[j].conn)
        => webhooks[j].time - webhooks[i].time >= WEBHOOK_INTERVAL_SECONDS

\* two attempts of one connection with a decodable video_frame between them
\* that arrived inside the interval and triggered none
C12_Witness ==
    \E i, j \in 1..Len(webhooks) :
        LET c == webhooks[i].conn
            k == webhooks[i].seq + 1
        IN  /\ i < j
            /\ webhooks[j].conn = c
            /\ k < webhooks[j].seq
            /\ inbox[c][k] = [type |-> "video_frame", frame |-> Image(1)]
            /\ \A h \in 1..Len(webhooks) : ~(webhooks[h].conn = c /\ webhooks[h].seq = k)

\* the post of the notification of connection c ends in this step without
\* having been delivered
WebhookFailed(c) ==
    /\ pc[c] = "webhook"
    /\ pc'[c] # "webhook"
    /\ cur'[c].notified # "delivered"

\* C13: the step in which a notification of connection c fails leaves the
\* connection open and the registry unchanged, and hands the engagement_update
\* of the same video_frame to send_message: when c is registered under its
\* client id, send_json of that engagement_update is started on c's websocket.
C13_FailedNotificationNotFatal ==
    [][\A c \in Conns :
          WebhookFailed(c)
          => /\ pc'[c] # "closed"
             /\ active_connections' = active_connections
             /\ ws_frame_count' = ws_frame_count
             /\ Registered(active_connections, client_id, c)
                   => /\ pc'[c] = "send"
                      /\ cur'[c].seq = cur[c].seq
                      /\ cur'[c].response = cur[c].response
                      /\ cur'[c].response.type = "engagement_update"
                      /\ cur'[c].target = c]_vars

\* a notification failed and send_json of the engagement_update of its
\* video_frame is under way on the client's websocket, which is still registered
C13_Witness ==
    \E c \in Conns :
        /\ pc[c] = "send"
        /\ cur[c].notified = "failed"
        /\ cur[c].response.type = "engagement_update"
        /\ cur[c].target = c
        /\ Registered(active_connections, client_id, c)

\* C14: while the notification of a video_frame is in flight, the
\* engagement_update of that frame has already been handed to send_json (it is
\* being sent or was sent): the response does not wait for the notification.
C14_ResponseNotBlocked ==
    \A c \in Conns :
        (cur[c].notified = "pending" /\ Registered(active_connections, client_id, c))
        => \/ Answers(c, c, cur[c].seq) # {}
           \/ pc[c] = "send"

\* receive_json of connection c returns a ping in this step
PingReceived(c) ==
    /\ Len(inbox'[c]) = Len(inbox[c]) + 1
    /\ inbox'[c][Len(inbox'[c])].type = "ping"

\* what was delivered in answer to the pings of connection c
PingAnswers(c) ==
    \A k \in 1..Len(inbox[c]) :
        inbox[c][k].type = "ping"
        => /\ \A t \in Conns : \A i \in Answers(t, c, k) : outbox[t][i].message = pong
           /\ \A t, u \in Conns : \A i \in Answers(t, c, k) : \A j \in Answers(u, c, k) :
                 t = u /\ i = j
           /\ \A i \in 1..Len(webhooks) : ~(webhooks[i].conn = c /\ webhooks[i].seq = k)
           /\ (Handled(c, k) /\ SoleOwner(c) /\ Registered(active_connections, client_id, c))
                 => Cardinality(Answers(c, c, k)) = 1

\* C15: the step that receives a ping leaves the frame counter, the last-sent
\* timestamp, the notification log, the tracker registry and everything
\* delivered so far unchanged and, on a registered connection, starts send_json
\* of a pong; a ping is never answered by anything but a pong, never by more
\* than one, never notified, and once handled on a connection registered under
\* its own client id it was answered by exactly one pong.
C15_PingOnlyPong ==
    /\ [](\A c \in Conns : PingAnswers(c))
    /\ [][\A c \in Conns :
             PingReceived(c)
             => /\ ws_frame_count' = ws_frame_count
                /\ last_webhook_time' = last_webhook_time
                /\ webhooks' = webhooks
                /\ outbox' = outbox
                /\ active_connections' = active_connections
                /\ UNCHANGED trackerVars
                /\ Registered(active_connections, client_id, c)
                      => /\ pc'[c] = "send"
                         /\ cur'[c].response = pong
                         /\ cur'[c].target = active_connections[client_id[c]]]_vars

\* a ping that arrived after a counted video_frame was answered by its pong
C15_Witness ==
    \E c \in Conns : \E k \in 2..Len(inbox[c]) :
        /\ inbox[c][k].type = "ping"
        /\ inbox[c][k - 1].type = "video_frame"
        /\ ws_frame_count[c] = 1
        /\ Handled(c, k)
        /\ \E i \in Answers(c, c, k) : outbox[c][i].message = pong

\* the positions of the messages delivered on websocket t that connection c sent
SentBy(t, c) == {i \in 1..Len(outbox[t]) : outbox[t][i].from = c}

\* C11: within one connection messages are handled strictly in arrival order
\* and never concurrently: at most one received message is not yet handled to
\* its end, and only while the handler is in the webhook call or the send of
\* that very message; responses and webhook calls of a connection come in the
\* order of its messages, one at most per message, and none for a message before
\* it is received.  The other connection may be at any point meanwhile.
C11_InArrivalOrder ==
    \A c \in Conns :
        /\ handled[c] <= Len(inbox[c])
        /\ Len(inbox[c]) <= handled[c] + 1
        /\ (Len(inbox[c]) = handled[c] + 1) <=> (pc[c] \in {"webhook", "send"})
        /\ IF pc[c] \in {"webhook", "send"}
           THEN cur[c].seq = Len(inbox[c])
           ELSE cur[c] = NoCur
        /\ \A t \in Conns :
              /\ \A i \in SentBy(t, c) : outbox[t][i].seq \in 1..handled[c]
              /\ \A i, j \in SentBy(t, c) : i < j => outbox[t][i].seq < outbox[t][j].seq
        /\ \A i \in 1..Len(webhooks) :
              webhooks[i].conn = c
              => /\ webhooks[i].seq \in 1..Len(inbox[c])
                 /\ \A j \in (i + 1)..Len(webhooks) :
                       webhooks[j].conn = c => webhooks[i].seq < webhooks[j].seq

\* C11 witness: a connection is sending the response to its second message, the
\* response to its first message was delivered before, and the other connection
\* is open at the same time
C11_Witness ==
    \E c \in Conns : \E d \in Conns \ {c} :
        /\ Len(inbox[c]) = 2
        /\ pc[c] = "send"
        /\ cur[c].seq = 2
        /\ Answers(c, c, 1) # {}
        /\ pc[d] \in {"receive", "webhook", "send"}

\* C21: the step in which send_json to the client of connection c fails
\* deregisters that client and closes c's session, and a closed session handles
\* nothing more: no message is received on it, its frame counter, its last-sent
\* timestamp and its notification attempts stay as they are.
C21_SendFailureCloses ==
    /\ [][\A c \in Conns :
             SendFailure(c)
             => /\ client_id[c] \notin DOMAIN active_connections'
                /\ pc'[c] = "closed"]_vars
    /\ [][\A c \in Conns :
             pc[c] = "closed"
             => /\ pc'[c] = "closed"
                /\ inbox'[c] = inbox[c]
                /\ ws_frame_count'[c] = ws_frame_count[c]
                /\ last_webhook_time'[c] = last_webhook_time[c]
                /\ \A i \in 1..Len(webhooks') :
                      webhooks'[i].conn = c => i <= Len(webhooks)]_vars

\* the step ends with manager.disconnect(client_id) called by connection a:
\* receive_json raised, or send_json raised inside send_personal_message
Disconnects(a) == ReceiveFailure(a) \/ SendFailure(a)

\* C22: every response is delivered on the websocket of the connection whose
\* message triggered it, and a step in which one connection disconnects leaves
\* the registry entry of every other connection that is still open in place,
\* also when two connections present the same client id.
C22_OwnConnectionOnly ==
    /\ [](\A t \in Conns : \A i \in 1..Len(outbox[t]) : outbox[t][i].from = t)
    /\ [][\A a, b \in Conns :
             (/\ Disconnects(a)
              /\ b # a
              /\ pc[b] \in {"receive", "send"}
              /\ Registered(active_connections, client_id, b))
             => Registered(active_connections', client_id', b)]_vars

\* C23: broadcast never ends in an error, whatever connect and disconnect calls
\* other flows make while it is suspended in a send; once it has completed,
\* every websocket registered when it started was sent the message or had its
\* send fail, and the clients removed are exactly those whose send failed.
C23_BroadcastCompletes ==
    /\ bc.pc # "raised"
    /\ bc.pc = "done"
          => /\ \A id \in DOMAIN bc.registered :
                    \/ bc.registered[id] \in bc.delivered
                    \/ id \in Ids(bc.disconnected_clients)
             /\ bc.removed \subseteq Ids(bc.disconnected_clients)

\* C29: every engagement_update that answers a video_frame whose payload was
\* decoded to an image showing no face carries a room result with
\* total_participants 0, the three bucket counts 0 and overall_score 0.5.
C29_EmptyFrameNeutral ==
    \A c \in Conns : \A k \in 1..Len(inbox[c]) :
        (inbox[c][k].type = "video_frame" /\ inbox[c][k].frame = Image(0))
        => \A t \in Conns : \A i \in Answers(t, c, k) :
               /\ outbox[t][i].message.type = "engagement_update"
               /\ ~outbox[t][i].message.data.error
               /\ outbox[t][i].message.data.total_participants = 0
               /\ outbox[t][i].message.data.highly_engaged = 0
               /\ outbox[t][i].message.data.neutral = 0
               /\ outbox[t][i].message.data.disengaged = 0
               /\ outbox[t][i].message.data.overall_score = 500

----------------------------------------------------------------------------
(* Claims about IoU *)

IsOne(r) == r[1] = r[2]

\* C6 as stated: for every well-formed box a, zero-width and zero-height boxes
\* included, _compute_iou(a, a) equals 1.
C6_IoUSelfIsOne ==
    (iou_result # <<>> /\ iou_a = iou_b) => IsOne(iou_result)

\* C6 amended: _compute_iou(a, a) equals 1 for every well-formed box of positive
\* area, and 0 for a box of zero width or zero height (its union is 0).
C6_IoUSelfPositiveArea ==
    (iou_result # <<>> /\ iou_a = iou_b) =>
        IF area(iou_a) > 0 THEN IsOne(iou_result) ELSE iou_result[1] = 0

\* C6 witness: the IoU of a box of positive area with itself has been computed
C6_Witness ==
    /\ iou_result # <<>>
    /\ iou_a = iou_b
    /\ area(iou_a) > 0
    /\ iou_result = <<area(iou_a), area(iou_a)>>

====
